---- MODULE Spec2Model ----
(***************************************************************************)
(* Wallet core of Coinbox: the session secret store (wallet/storage.rs),   *)
(* the chain registry (wallet/registry.rs) and the wallet manager          *)
(* (wallet/core.rs).                                                       *)
(*                                                                         *)
(* Two specifications share the store's state:                             *)
(*   Spec      every public call runs to completion before the next one    *)
(*             starts (one caller);                                        *)
(*   SpecConc  several callers run SecureStorage calls at once; a step is  *)
(*             one acquisition of one of the two RwLocks, which is the     *)
(*             granularity at which the code is atomic.                    *)
(***************************************************************************)
EXTENDS Integers, Sequences, FiniteSets, TLC

\* ------------------------------------------------------------------ bounds
MaxWallets == 2
NumThreads == 2

WalletIds == 1..MaxWallets
Threads == 1..NumThreads

\* ------------------------------------------------------------ input values
\* Entropy a phrase encodes; a 64-byte seed is named by the entropy it was
\* stretched from. NoSeed marks an absent map entry.
Entropies == {"e1", "e2"}
Seeds == { <<"pbkdf2", e>> : e \in Entropies }
NoSeed == <<>>

\* Chain ids a caller may send: three registered ones and two that are not.
RequestChainIds == {"bitcoin", "ethereum", "solana", "dogecoin", "cosmos"}
AccountIndices == {0, 1}
WordCounts == {12, 15, 24}

\* A submitted phrase: its number of words, the 1-based position of its first
\* word that is not in the wordlist (0: none) with that word, whether its
\* BIP39 checksum is right, and the entropy it encodes.
Phrases ==
    { [count |-> 12, badPos |-> 0, badWord |-> "", checksum |-> TRUE,  entropy |-> "e1"],
      [count |-> 24, badPos |-> 0, badWord |-> "", checksum |-> TRUE,  entropy |-> "e2"],
      [count |-> 11, badPos |-> 0, badWord |-> "", checksum |-> TRUE,  entropy |-> "e1"],
      [count |-> 12, badPos |-> 3, badWord |-> "zzz", checksum |-> TRUE, entropy |-> "e1"],
      [count |-> 12, badPos |-> 0, badWord |-> "", checksum |-> FALSE, entropy |-> "e2"] }

\* Request lists: empty, single, the three-chain request of the manager's
\* test, a repeated id, and unsupported ids first, in the middle and last.
ChainLists ==
    { <<>>,
      <<"bitcoin">>,
      <<"bitcoin", "ethereum", "solana">>,
      <<"solana", "bitcoin">>,
      <<"ethereum", "ethereum">>,
      <<"dogecoin">>,
      <<"bitcoin", "dogecoin", "cosmos">>,
      <<"cosmos", "bitcoin", "dogecoin">>,
      <<"solana", "ethereum", "cosmos">> }

\* --------------------------------------------------------- results, errors
Ok(v) == [ok |-> TRUE, val |-> v]
Err(e) == [ok |-> FALSE, err |-> e]

WalletLocked == <<"WalletLocked">>
WalletNotFound(w) == <<"WalletNotFound", w>>
UnsupportedChain(c) == <<"UnsupportedChain", c>>
InvalidMnemonicLength(n) == <<"InvalidMnemonicLength", n>>
InvalidMnemonic(msg) == <<"InvalidMnemonic", msg>>
DerivationError(msg) == <<"DerivationError", msg>>

VARIABLES
    is_unlocked,   \* SessionCache.is_unlocked
    seeds,         \* SessionCache.seeds: wallet id -> seed, NoSeed when absent
    used,          \* wallet ids handed out or cached so far (uuids are fresh)
    last,          \* Spec: the last call, its arguments and what it returned
    lastCached,    \* Spec: per wallet id, the seed of its latest cache_seed
    phase,         \* Spec: per wallet id, none / cached / locked / reunlocked
    sinceLock,     \* Spec: a lock() ran and no cache_seed or unlock since
    pc,            \* SpecConc: per caller, where it is in its call
    arg,           \* SpecConc: per caller, the call's arguments
    ret,           \* SpecConc: per caller, what its finished call returned
    cachedAtStart, \* SpecConc: per caller, was get_seed's id cached at its start
    held,          \* SpecLock: per caller, the RwLock guards it holds between steps
    files,         \* SpecBtc: per wallet id, its <id>.sqlite under db_path
    tip,           \* SpecBtc: how many transactions of TxPool the server has
    mem,           \* SpecBtc: the PersistedWallet a caller of the adapter holds
    btcLast,       \* SpecBtc, SpecHist: the last adapter call, its result and its steps
    electrum,      \* SpecHist: the Electrum server as direct queries see it
    ethereum_state, \* SpecCmd: the store of EthereumState.wallet_manager
    residue        \* SpecMem: seed bytes left in memory outside the cache, not overwritten

vars == <<is_unlocked, seeds, used, last, lastCached, phase, sinceLock,
          pc, arg, ret, cachedAtStart, held, files, tip, mem, btcLast,
          electrum, ethereum_state, residue>>
seqVars == <<last, lastCached, phase, sinceLock>>
concVars == <<pc, arg, ret, cachedAtStart>>
guardVars == <<held>>
btcVars == <<files, tip, mem, btcLast>>
histVars == <<electrum>>
cmdVars == <<ethereum_state>>
memVars == <<residue>>
adapterVars == <<btcVars, histVars, cmdVars, memVars>>
sessionVars == <<is_unlocked, seeds, used, seqVars, concVars, guardVars, cmdVars, memVars>>

\* The store as one value, for the operators below.
St == [unlocked |-> is_unlocked, seeds |-> seeds]

\* ------------------------------------------------------------ SessionCache
SessionCache_new ==
    [unlocked |-> FALSE, seeds |-> [w \in WalletIds |-> NoSeed]]

SessionCache_is_unlocked(st) == st.unlocked

SessionCache_set_unlocked(st, unlocked) == [st EXCEPT !.unlocked = unlocked]

SessionCache_cache_seed(st, w, seed) == [st EXCEPT !.seeds[w] = seed]

\* Option<[u8; 64]>: NoSeed is None.
SessionCache_get_seed(st, w) == st.seeds[w]

SessionCache_has_seed(st, w) == st.seeds[w] # NoSeed

\* A clear() that drops one entry only.
SessionCache_clear_seeds_One(st) ==
    [st EXCEPT !.seeds = [w \in WalletIds |-> IF w = 1 THEN NoSeed ELSE st.seeds[w]]]

\* clear(), first statement: seeds.write().clear()
SessionCache_clear_seeds(st) == [st EXCEPT !.seeds = [w \in WalletIds |-> NoSeed]]

\* A clear() that leaves the flag as it was.
SessionCache_clear_flag_Kept(st) == st

\* clear(), second statement: *is_unlocked.write() = false
SessionCache_clear_flag(st) == [st EXCEPT !.unlocked = FALSE]

SessionCache_clear(st) == SessionCache_clear_flag(SessionCache_clear_seeds(st))

\* ----------------------------------------------------------- SecureStorage
SecureStorage_is_unlocked(st) == SessionCache_is_unlocked(st)

\* A get_seed that looks in the map before it checks the flag.
SecureStorage_get_seed_MapFirst(flag, entry, w) ==
    IF entry = NoSeed THEN Err(WalletNotFound(w))
    ELSE IF ~flag THEN Err(WalletLocked)
    ELSE Ok(entry)

\* get_seed, given the flag it read and the map entry it read.
SecureStorage_get_seed_from(flag, entry, w) ==
    IF ~flag THEN Err(WalletLocked)
    ELSE IF entry = NoSeed THEN Err(WalletNotFound(w))
    ELSE Ok(entry)

SecureStorage_get_seed(st, w) ==
    SecureStorage_get_seed_from(SecureStorage_is_unlocked(st),
                                SessionCache_get_seed(st, w), w)

\* A cache_seed that inserts without setting the flag.
SecureStorage_cache_seed_NoFlag(st, w, seed) == SessionCache_cache_seed(st, w, seed)

SecureStorage_cache_seed(st, w, seed) ==
    SessionCache_cache_seed(SessionCache_set_unlocked(st, TRUE), w, seed)

SecureStorage_lock(st) == SessionCache_clear(st)

SecureStorage_unlock(st) == SessionCache_set_unlocked(st, TRUE)

\* ---------------------------------------------------------------- mnemonic
ValidateMnemonicResponse(valid, count, error) ==
    [is_valid |-> valid, word_count |-> count, error |-> error]

\* validate_mnemonic: word count, then wordlist membership in word order,
\* then the checksum. The error texts are kept as tagged tuples.
validate_mnemonic(phrase) ==
    IF phrase.count \notin {12, 24}
    THEN ValidateMnemonicResponse(FALSE, phrase.count,
                                  <<"Invalid word count", phrase.count>>)
    ELSE IF phrase.badPos # 0
    THEN ValidateMnemonicResponse(FALSE, phrase.count,
                                  <<"Invalid word", phrase.badWord, phrase.badPos>>)
    ELSE IF ~phrase.checksum
    THEN ValidateMnemonicResponse(FALSE, phrase.count, <<"checksum">>)
    ELSE ValidateMnemonicResponse(TRUE, phrase.count, <<>>)

parse_mnemonic(phrase) ==
    LET validation == validate_mnemonic(phrase)
    IN IF ~validation.is_valid THEN Err(InvalidMnemonic(validation.error))
       ELSE Ok(phrase)

\* generate_mnemonic(length): fresh entropy encoded as a valid phrase.
generate_mnemonic(count, entropy) ==
    [count |-> count, badPos |-> 0, badWord |-> "", checksum |-> TRUE,
     entropy |-> entropy]

\* PBKDF2 of a valid phrase: a function of the phrase alone.
mnemonic_to_seed(mnemonic) ==
    IF mnemonic.count \in {12, 24} /\ mnemonic.badPos = 0 /\ mnemonic.checksum
    THEN Ok(<<"pbkdf2", mnemonic.entropy>>)
    ELSE Err(InvalidMnemonic(<<"parse">>))

\* ----------------------------------------------------------- chain modules
BITCOIN == 0
ETHEREUM == 60
SOLANA == 501

EvmChainIds == {"ethereum", "arbitrum", "optimism", "base", "polygon"}

\* Child numbers are words of ChildBits + 1 bits (32 in the source): the top
\* bit, HARDENED_FLAG (0x80000000 in the source), marks a hardened child.
ChildBits == 10
HARDENED_FLAG == 2 ^ ChildBits

\* One path component as the path string writes it: its number and whether
\* it carries the apostrophe.
Comp(n, hardened) == [n |-> n, hardened |-> hardened]

\* m/84'/0'/account'/0/index
BitcoinModule_derivation_path(account, index) ==
    << Comp(84, TRUE), Comp(BITCOIN, TRUE), Comp(account, TRUE),
       Comp(0, FALSE), Comp(index, FALSE) >>

\* m/44'/60'/account'/0/index
EthereumModule_derivation_path(account, index) ==
    << Comp(44, TRUE), Comp(ETHEREUM, TRUE), Comp(account, TRUE),
       Comp(0, FALSE), Comp(index, FALSE) >>

\* m/44'/501'/account'/index'
SolanaModule_derivation_path(account, index) ==
    << Comp(44, TRUE), Comp(SOLANA, TRUE), Comp(account, TRUE), Comp(index, TRUE) >>

\* path.parse(): a component whose number has the top bit set is not a
\* child number, with or without the apostrophe. Then BIP32 from the seed
\* along the parsed path; the key is named by both.
derive_key_from_seed(seed, path) ==
    IF \E i \in DOMAIN path : path[i].n >= HARDENED_FLAG
    THEN Err(DerivationError("Invalid path"))
    ELSE Ok(<<seed, path>>)

\* SLIP-0010: index | 0x80000000 sets the top bit of every index; the child
\* is named by the low bits and the (set) top bit of the result.
slip10_derive_child(index) == Comp(index % HARDENED_FLAG, TRUE)

slip10_derive_path(seed, path) ==
    <<seed, [i \in 1..Len(path) |-> slip10_derive_child(path[i])]>>

DerivedAddress(chain, family, address, path, public_key) ==
    [chain |-> chain, chain_family |-> family, address |-> address,
     derivation_path |-> path, public_key |-> public_key]

BitcoinModule_derive_address(seed, account, index) ==
    LET path == BitcoinModule_derivation_path(account, index)
        derived_key == derive_key_from_seed(seed, path)
        key == derived_key.val
    IN IF ~derived_key.ok THEN derived_key
       ELSE Ok(DerivedAddress("bitcoin", "Secp256k1", <<"p2wpkh", key>>, path,
                              <<"compressed", key>>))

\* An EVM module that takes Polygon's own SLIP-44 coin type for Polygon.
EthereumModule_derive_address_OwnCoinType(chain_id, seed, account, index) ==
    LET path == IF chain_id = "polygon"
                THEN << Comp(44, TRUE), Comp(966, TRUE), Comp(account, TRUE),
                        Comp(0, FALSE), Comp(index, FALSE) >>
                ELSE EthereumModule_derivation_path(account, index)
        derived_key == derive_key_from_seed(seed, path)
        key == derived_key.val
    IN IF ~derived_key.ok THEN derived_key
       ELSE Ok(DerivedAddress(chain_id, "Secp256k1", <<"eip55", key>>, path,
                              <<"uncompressed", key>>))

EthereumModule_derive_address(chain_id, seed, account, index) ==
    LET path == EthereumModule_derivation_path(account, index)
        derived_key == derive_key_from_seed(seed, path)
        key == derived_key.val
    IN IF ~derived_key.ok THEN derived_key
       ELSE Ok(DerivedAddress(chain_id, "Secp256k1", <<"eip55", key>>, path,
                              <<"uncompressed", key>>))

SolanaModule_derive_address(seed, account, index) ==
    LET key == slip10_derive_path(seed, <<44, SOLANA, account, index>>)
    IN Ok(DerivedAddress("solana", "Ed25519", <<"base58", key>>,
                         SolanaModule_derivation_path(account, index),
                         <<"ed25519", key>>))

\* ------------------------------------------------------ address validation
\* An address string, by the properties the validators look at: its prefix
\* and length, whether it parses as a Bitcoin address, whether the characters
\* after the prefix are hex digits, whether it passes is_valid_checksum,
\* whether it is Base58 and how many bytes it decodes to.
AddressString(prefix, len, btc_parses, hex, checksum, base58, decoded_len) ==
    [prefix |-> prefix, len |-> len, btc_parses |-> btc_parses, hex |-> hex,
     checksum |-> checksum, base58 |-> base58, decoded_len |-> decoded_len]

AddressStrings ==
    { AddressString("bc1", 42, TRUE, FALSE, FALSE, FALSE, 0),
      AddressString("tb1", 42, TRUE, FALSE, FALSE, FALSE, 0),
      AddressString("0x", 42, FALSE, TRUE, TRUE, FALSE, 0),
      AddressString("0x", 42, FALSE, TRUE, FALSE, FALSE, 0),
      AddressString("0x", 6, FALSE, TRUE, FALSE, FALSE, 0),
      AddressString("7", 44, FALSE, FALSE, FALSE, TRUE, 32),
      AddressString("7", 44, FALSE, FALSE, FALSE, TRUE, 31) }

\* BitcoinModule::new() is the mainnet module: parse, then 1 / 3 / bc1.
BitcoinModule_validate_address(address) ==
    IF address.btc_parses THEN address.prefix \in {"1", "3", "bc1"} ELSE FALSE

EthereumModule_validate_address(address) ==
    IF address.prefix # "0x" \/ address.len # 42 THEN FALSE
    ELSE IF ~address.hex THEN FALSE
    ELSE address.checksum

SolanaModule_validate_address(address) ==
    IF address.len < 32 \/ address.len > 44 THEN FALSE
    ELSE IF ~address.base58 THEN FALSE
    ELSE address.decoded_len = 32

\* ----------------------------------------------------------- ChainRegistry
\* ChainRegistry::new registers these seven modules; nothing else registers.
ChainRegistry_new == {"bitcoin"} \cup EvmChainIds \cup {"solana"}

ChainRegistry_is_supported(chain_id) == chain_id \in ChainRegistry_new

ChainRegistry_derive_address(chain_id, seed, account, index) ==
    IF ~ChainRegistry_is_supported(chain_id) THEN Err(UnsupportedChain(chain_id))
    ELSE IF chain_id = "bitcoin" THEN BitcoinModule_derive_address(seed, account, index)
    ELSE IF chain_id = "solana" THEN SolanaModule_derive_address(seed, account, index)
    ELSE EthereumModule_derive_address(chain_id, seed, account, index)

\* A registry lookup that answers "not valid" for a chain it does not know.
ChainRegistry_validate_address_Lenient(chain_id, address) ==
    IF ~ChainRegistry_is_supported(chain_id) THEN Ok(FALSE)
    ELSE IF chain_id = "bitcoin" THEN Ok(BitcoinModule_validate_address(address))
    ELSE IF chain_id = "solana" THEN Ok(SolanaModule_validate_address(address))
    ELSE Ok(EthereumModule_validate_address(address))

ChainRegistry_validate_address(chain_id, address) ==
    IF ~ChainRegistry_is_supported(chain_id) THEN Err(UnsupportedChain(chain_id))
    ELSE IF chain_id = "bitcoin" THEN Ok(BitcoinModule_validate_address(address))
    ELSE IF chain_id = "solana" THEN Ok(SolanaModule_validate_address(address))
    ELSE Ok(EthereumModule_validate_address(address))

\* chain_ids.iter().map(derive at index 0).collect(): the first Err ends it.
RECURSIVE derive_addresses_from(_, _, _, _, _)
derive_addresses_from(chain_ids, seed, account, i, acc) ==
    IF i > Len(chain_ids) THEN Ok(acc)
    ELSE LET r == ChainRegistry_derive_address(chain_ids[i], seed, account, 0)
         IN IF r.ok
            THEN derive_addresses_from(chain_ids, seed, account, i + 1, Append(acc, r.val))
            ELSE r

\* A fan-out that collects the addresses in reverse request order.
RECURSIVE derive_addresses_reversed(_, _, _, _, _)
derive_addresses_reversed(chain_ids, seed, account, i, acc) ==
    IF i > Len(chain_ids) THEN Ok(acc)
    ELSE LET r == ChainRegistry_derive_address(chain_ids[i], seed, account, 0)
         IN IF r.ok
            THEN derive_addresses_reversed(chain_ids, seed, account, i + 1, <<r.val>> \o acc)
            ELSE r

ChainRegistry_derive_addresses_Reversed(chain_ids, seed, account) ==
    derive_addresses_reversed(chain_ids, seed, account, 1, <<>>)

ChainRegistry_derive_addresses(chain_ids, seed, account) ==
    derive_addresses_from(chain_ids, seed, account, 1, <<>>)

\* ----------------------------------------------------------- WalletManager
WalletManager_generate_mnemonic(word_count, entropy) ==
    IF word_count \in {12, 24} THEN Ok(generate_mnemonic(word_count, entropy))
    ELSE Err(InvalidMnemonicLength(word_count))

CreateHDWalletResponse(wallet_id, mnemonic, addresses) ==
    [wallet_id |-> wallet_id, mnemonic |-> mnemonic, addresses |-> addresses]

\* A finish that caches the seed before it derives the addresses.
WalletManager_finish_CacheFirst(st, mnemonic, chains, id) ==
    LET seed == mnemonic_to_seed(mnemonic)
    IN IF ~seed.ok THEN [st |-> st, result |-> seed]
       ELSE LET cached == SecureStorage_cache_seed(st, id, seed.val)
                addresses == ChainRegistry_derive_addresses(chains, seed.val, 0)
            IN IF ~addresses.ok THEN [st |-> cached, result |-> addresses]
               ELSE [st |-> cached,
                     result |-> Ok(CreateHDWalletResponse(id, mnemonic, addresses.val))]

\* Steps 2 to 5 of create_hd_wallet and import_hd_wallet, which are the same
\* in both: seed, addresses at account 0, wallet id, cache_seed. id is the
\* uuid step 4 draws. Gives the store afterwards and the call's result.
WalletManager_finish(st, mnemonic, chains, id) ==
    LET seed == mnemonic_to_seed(mnemonic)
    IN IF ~seed.ok THEN [st |-> st, result |-> seed]
       ELSE LET addresses == ChainRegistry_derive_addresses(chains, seed.val, 0)
            IN IF ~addresses.ok THEN [st |-> st, result |-> addresses]
               ELSE [st |-> SecureStorage_cache_seed(st, id, seed.val),
                     result |-> Ok(CreateHDWalletResponse(id, mnemonic, addresses.val))]

WalletManager_create_hd_wallet(st, chains, word_count, entropy, id) ==
    LET mnemonic == WalletManager_generate_mnemonic(word_count, entropy)
    IN IF ~mnemonic.ok THEN [st |-> st, result |-> mnemonic]
       ELSE WalletManager_finish(st, mnemonic.val, chains, id)

WalletManager_import_hd_wallet(st, mnemonic_phrase, chains, id) ==
    LET mnemonic == parse_mnemonic(mnemonic_phrase)
    IN IF ~mnemonic.ok THEN [st |-> st, result |-> mnemonic]
       ELSE WalletManager_finish(st, mnemonic.val, chains, id)

\* A derivation that hands out the next index when asked again, as a
\* receive-address counter would.
WalletManager_derive_address_Advancing(st, wallet_id, chain_id, account, index) ==
    LET seed == SecureStorage_get_seed(st, wallet_id)
    IN IF ~seed.ok THEN seed
       ELSE ChainRegistry_derive_address(chain_id, seed.val, account,
                IF last.op = "derive_address" THEN index + 1 ELSE index)

WalletManager_derive_address(st, wallet_id, chain_id, account, index) ==
    LET seed == SecureStorage_get_seed(st, wallet_id)
    IN IF ~seed.ok THEN seed
       ELSE ChainRegistry_derive_address(chain_id, seed.val, account, index)

WalletManager_validate_address(chain_id, address) ==
    ChainRegistry_validate_address(chain_id, address)

WalletManager_is_unlocked(st) == SecureStorage_is_unlocked(st)

WalletManager_lock(st) == SecureStorage_lock(st)

\* unlock ignores both arguments and always returns Ok(()).
WalletManager_unlock(st, wallet_id) ==
    [st |-> SecureStorage_unlock(st), result |-> Ok(<<>>)]

\* ---------------------------------------------- Bitcoin adapter: the data
\* Error::Bitcoin(message)
Bitcoin(msg) == <<"Bitcoin", msg>>

\* An output, and an input with the output it spends. owner is the wallet id
\* whose keys the script belongs to, 0 for a script of nobody here.
TxOut(value, owner) == [value |-> value, owner |-> owner]
TxIn(txid, vout, value, owner) ==
    [txid |-> txid, vout |-> vout, value |-> value, owner |-> owner]

\* The transactions the server comes to know, oldest first: wallet 1 receives
\* 5, wallet 2 receives 3, wallet 1 pays 3 away (fee 1, change 1), wallet 1
\* moves its change to itself with somebody else paying the fee.
TxPool ==
    << [txid |-> "ta", block_height |-> 100, block_time |-> 1000,
        inputs |-> <<TxIn("x0", 0, 6, 0)>>,
        outputs |-> <<TxOut(5, 1)>>],
       [txid |-> "td", block_height |-> 101, block_time |-> 1010,
        inputs |-> <<TxIn("x2", 0, 4, 0)>>,
        outputs |-> <<TxOut(3, 2)>>],
       [txid |-> "tb", block_height |-> 102, block_time |-> 1020,
        inputs |-> <<TxIn("ta", 0, 5, 1)>>,
        outputs |-> <<TxOut(3, 0), TxOut(1, 1)>>],
       [txid |-> "tc", block_height |-> 103, block_time |-> 1030,
        inputs |-> <<TxIn("tb", 1, 1, 1), TxIn("x1", 0, 2, 0)>>,
        outputs |-> <<TxOut(1, 1), TxOut(1, 0)>>] >>

Chain(n) == { TxPool[i] : i \in 1..n }

\* What a full scan sees when the next transaction of TxPool has been
\* broadcast and not yet mined: the chain, and that transaction unconfirmed.
ChainWithMempool(n) ==
    Chain(n) \cup (IF n < Len(TxPool)
                   THEN {[TxPool[n + 1] EXCEPT !.block_height = 0, !.block_time = 0]}
                   ELSE {})

\* What one call gets from the Electrum server: does the connection come up,
\* does the full scan go through, does the server take a broadcast.
Server(connect_ok, scan_ok, accepts) ==
    [connect_ok |-> connect_ok, scan_ok |-> scan_ok, accepts |-> accepts]

\* Up and serving; unreachable; reachable but failing each request.
Servers == {Server(TRUE, TRUE, TRUE), Server(FALSE, FALSE, FALSE),
            Server(TRUE, FALSE, FALSE)}

\* The wallet ids of this part: the owners of the scripts in TxPool.
BtcWalletIds == {1, 2}

\* The adapter of BitcoinState::new is BitcoinAdapter::mainnet.
AdapterNetwork == "bitcoin"

\* Recipient strings: does it parse as an address, and for which network.
Recipients ==
    { [parses |-> TRUE, network |-> "bitcoin", text |-> "bc1q-recipient"],
      [parses |-> TRUE, network |-> "testnet", text |-> "tb1q-recipient"],
      [parses |-> FALSE, network |-> "none", text |-> "not-an-address"] }

SendAmounts == {2}

\* Inputs of create_watch_wallet: the first characters, whether the string
\* parses as an address, whether it is a well-formed extended public key,
\* and whose account key it is.
WatchInputs ==
    { [prefix |-> "bc1", parses |-> TRUE, xpub_ok |-> FALSE, owner |-> 1],
      [prefix |-> "1", parses |-> FALSE, xpub_ok |-> FALSE, owner |-> 0],
      [prefix |-> "xpub", parses |-> FALSE, xpub_ok |-> TRUE, owner |-> 1],
      [prefix |-> "xpub", parses |-> FALSE, xpub_ok |-> FALSE, owner |-> 0] }

\* A bdk Wallet: signing ("full") or public-key only ("watch"), the keys its
\* scripts belong to, the transactions it knows, and whether it has revealed
\* a change address on top of what its database holds.
\* next_external: the external derivation index reveal_next_address gives
\* next; a new wallet has revealed none.
BdkWallet(kind, owner, txs, change_revealed) ==
    [kind |-> kind, owner |-> owner, txs |-> txs, change_revealed |-> change_revealed,
     next_external |-> 0]

NoWallet == BdkWallet("none", 0, {}, FALSE)

\* <db_path>/<wallet_id>.sqlite: absent, or a database with or without a
\* wallet written into it.
NoFile == [exists |-> FALSE, has_wallet |-> FALSE, wallet |-> NoWallet]
EmptyDb == [exists |-> TRUE, has_wallet |-> FALSE, wallet |-> NoWallet]
WalletDb(wallet) == [exists |-> TRUE, has_wallet |-> TRUE, wallet |-> wallet]

\* The wallet object a caller holds between adapter calls.
NoHandle == [loaded |-> FALSE, wallet_id |-> 0, wallet |-> NoWallet]
Handle(wallet_id, wallet) == [loaded |-> TRUE, wallet_id |-> wallet_id, wallet |-> wallet]

\* One thing a call did, in the order it did it, with how it went.
Step(name, outcome) == <<name, outcome>>

BtcCall(op, args, result, steps) ==
    [op |-> op, args |-> args, result |-> result, steps |-> steps]

\* Option<u64>: None, or Some(v).
None == [some |-> FALSE, val |-> 0]
Some(v) == [some |-> TRUE, val |-> v]

\* ConfirmationStatus
Confirmed(block_height, block_time, confirmations) ==
    [type |-> "confirmed", block_height |-> block_height,
     block_time |-> block_time, confirmations |-> confirmations]
Unconfirmed ==
    [type |-> "unconfirmed", block_height |-> 0, block_time |-> 0, confirmations |-> 0]

\* ------------------------------------- the Electrum server, queried directly
\* The transactions that touch the script of the watched address, owner 1:
\* a1 pays it 5, a2 spends that output and pays nothing back, a3 pays it 2.
MaxTip == 3

AddrScript == 1

AddrTxPool ==
    << [txid |-> "a1", parents |-> {}, outputs |-> <<TxOut(5, 1)>>],
       [txid |-> "a2", parents |-> {"a1"}, outputs |-> <<TxOut(4, 0)>>],
       [txid |-> "a3", parents |-> {}, outputs |-> <<TxOut(2, 1), TxOut(7, 0)>>] >>

AddrTxIds == { AddrTxPool[i].txid : i \in DOMAIN AddrTxPool }

AddrTx(txid) == CHOOSE tx \in { AddrTxPool[i] : i \in DOMAIN AddrTxPool } : tx.txid = txid

\* The server's view: its best block height, the transactions it has seen,
\* and the height it reports for each (0 in the mempool, -1 in the mempool on
\* top of an unconfirmed parent, the block height once mined).
ElectrumInit ==
    [tip |-> 0, seen |-> {}, height |-> [t \in AddrTxIds |-> 0]]

Electrum_mempool(e) == { t \in e.seen : e.height[t] <= 0 }

Electrum_mempool_height(e, height, txid) ==
    IF \A p \in AddrTx(txid).parents : height[p] > 0 THEN 0 ELSE -1

\* A transaction reaches the server's mempool.
Electrum_see(e, txid) ==
    LET seen == e.seen \cup {txid}
    IN [e EXCEPT !.seen = seen,
                 !.height = [@ EXCEPT ![txid] = Electrum_mempool_height(e, e.height, txid)]]

\* A block on top of the tip takes the mempool transactions in `mined`.
Electrum_new_block(e, mined) ==
    LET block == e.tip + 1
        placed == [t \in AddrTxIds |-> IF t \in mined THEN block ELSE e.height[t]]
    IN [e EXCEPT !.tip = block,
                 !.height = [t \in AddrTxIds |->
                                IF t \in e.seen /\ placed[t] <= 0
                                THEN Electrum_mempool_height(e, placed, t)
                                ELSE placed[t]]]

\* header.time of the block at a height.
Electrum_block_time(height) == 1000 + 10 * height

\* script_get_history: mined transactions by height, then the mempool.
RECURSIVE Electrum_history_from(_, _)
Electrum_history_from(e, h) ==
    IF h > e.tip THEN <<>>
    ELSE SelectSeq(AddrTxPool, LAMBDA tx : tx.txid \in e.seen /\ e.height[tx.txid] = h)
         \o Electrum_history_from(e, h + 1)

Electrum_script_get_history(e) ==
    LET item(tx) == [tx_hash |-> tx.txid, height |-> e.height[tx.txid]]
        listed == Electrum_history_from(e, 1)
                  \o SelectSeq(AddrTxPool, LAMBDA tx : tx.txid \in Electrum_mempool(e))
    IN [i \in DOMAIN listed |-> item(listed[i])]

\* Which requests of one call fail: the connection, the tip query, the
\* history query, the transaction fetches, and the header fetch of the
\* heights in `headers`.
Fault(connect, tip_query, history, transaction, headers) ==
    [connect |-> connect, tip |-> tip_query, history |-> history,
     transaction |-> transaction, headers |-> headers]

NoFault == Fault(FALSE, FALSE, FALSE, FALSE, {})

Faults ==
    {NoFault,
     Fault(TRUE, FALSE, FALSE, FALSE, {}),
     Fault(FALSE, TRUE, FALSE, FALSE, {}),
     Fault(FALSE, FALSE, TRUE, FALSE, {}),
     Fault(FALSE, FALSE, FALSE, TRUE, {}),
     Fault(FALSE, FALSE, FALSE, FALSE, {1}),
     Fault(FALSE, FALSE, FALSE, FALSE, 1..(MaxTip + 1)),
     Fault(FALSE, TRUE, FALSE, FALSE, 1..(MaxTip + 1))}

\* ----------------------------------------------- Bitcoin adapter: bdk side
RECURSIVE SumOwned(_, _)
SumOwned(items, owner) ==
    IF items = <<>> THEN 0
    ELSE (IF Head(items).owner = owner THEN Head(items).value ELSE 0)
         + SumOwned(Tail(items), owner)

RECURSIVE SumAmounts(_)
SumAmounts(utxos) ==
    IF utxos = {} THEN 0
    ELSE LET u == CHOOSE x \in utxos : TRUE
         IN u.amount_sats + SumAmounts(utxos \ {u})

Wallet_is_mine(wallet, txout) == txout.owner = wallet.owner

\* Does the transaction pay to or spend from the wallet's scripts.
Wallet_is_relevant(wallet, tx) ==
    \/ \E i \in DOMAIN tx.outputs : tx.outputs[i].owner = wallet.owner
    \/ \E i \in DOMAIN tx.inputs : tx.inputs[i].owner = wallet.owner

\* Wallet::list_unspent: owned outputs no known transaction spends.
Wallet_is_spent(wallet, txid, vout) ==
    \E spender \in wallet.txs : \E k \in DOMAIN spender.inputs :
        /\ spender.inputs[k].txid = txid
        /\ spender.inputs[k].vout = vout

Wallet_list_unspent(wallet) ==
    UNION { { [txid |-> tx.txid, vout |-> i - 1,
               amount_sats |-> tx.outputs[i].value,
               is_confirmed |-> TRUE, block_height |-> tx.block_height] :
                 i \in { j \in DOMAIN tx.outputs :
                            /\ Wallet_is_mine(wallet, tx.outputs[j])
                            /\ ~Wallet_is_spent(wallet, tx.txid, j - 1) } } :
            tx \in wallet.txs }

\* Wallet::apply_update of a full scan: the wallet learns every transaction
\* of the chain that touches its scripts.
Wallet_apply_update(wallet, chain) ==
    LET relevant == { tx \in chain : Wallet_is_relevant(wallet, tx) }
    IN [wallet EXCEPT !.txs = { t \in @ : \A tx \in relevant : tx.txid # t.txid } \cup relevant]

\* TxBuilder::finish: coin selection over the wallet's unspent outputs; a
\* change output reveals the next change address in the wallet.
Wallet_build_tx(wallet, amount_sats, fee_rate) ==
    LET available == SumAmounts(Wallet_list_unspent(wallet))
        change == available - amount_sats - fee_rate
    IN IF change < 0 THEN [ok |-> FALSE, wallet |-> wallet, change |-> 0]
       ELSE [ok |-> TRUE,
             wallet |-> [wallet EXCEPT !.change_revealed = @ \/ change > 0],
             change |-> change]

\* Wallet::sign with default options: finalized only if the wallet has the
\* private keys of every input.
Wallet_sign(wallet) == wallet.kind = "full"

\* ------------------------------------------------- BitcoinAdapter, by call
\* What an adapter call gives: the wallet object (or the files) afterwards,
\* the result, and the steps it took.
BitcoinAdapter_create_electrum_client(server) ==
    IF server.connect_ok THEN Ok(<<"client">>)
    ELSE Err(Bitcoin("Electrum connection failed"))

BitcoinAdapter_is_single_address(address_or_xpub) ==
    address_or_xpub.prefix \in {"bc1", "tb1", "1", "3", "m", "n", "2"}

\* Connection::open creates the database file when there is none.
Connection_open(fs, wallet_id) ==
    IF fs[wallet_id].exists THEN fs ELSE [fs EXCEPT ![wallet_id] = EmptyDb]

\* A create_watch_wallet that opens the database before it looks at the input.
BitcoinAdapter_create_watch_wallet_OpenFirst(fs, address_or_xpub, wallet_id) ==
    LET opened == Connection_open(fs, wallet_id)
    IN IF BitcoinAdapter_is_single_address(address_or_xpub)
       THEN IF address_or_xpub.parses
            THEN [files |-> opened, result |-> Ok(<<>>)]
            ELSE [files |-> opened, result |-> Err(Bitcoin("Invalid address"))]
       ELSE IF ~address_or_xpub.xpub_ok \/ opened[wallet_id].has_wallet
       THEN [files |-> opened, result |-> Err(Bitcoin("Wallet creation failed"))]
       ELSE [files |-> [opened EXCEPT ![wallet_id] =
                          WalletDb(BdkWallet("watch", address_or_xpub.owner, {}, FALSE))],
             result |-> Ok(<<>>)]

BitcoinAdapter_create_watch_wallet(fs, address_or_xpub, wallet_id) ==
    IF BitcoinAdapter_is_single_address(address_or_xpub)
    THEN IF address_or_xpub.parses
         THEN [files |-> fs, result |-> Ok(<<>>)]
         ELSE [files |-> fs, result |-> Err(Bitcoin("Invalid address"))]
    ELSE LET opened == Connection_open(fs, wallet_id)
         IN IF ~address_or_xpub.xpub_ok \/ opened[wallet_id].has_wallet
            THEN [files |-> opened, result |-> Err(Bitcoin("Wallet creation failed"))]
            ELSE [files |-> [opened EXCEPT ![wallet_id] =
                               WalletDb(BdkWallet("watch", address_or_xpub.owner, {}, FALSE))],
                  result |-> Ok(<<>>)]

\* An unclamped confirmation count.
AddressConfirmations_Unclamped(tip_height, height) == tip_height - height + 1

\* if tip_height > height { tip_height - height + 1 } else { 1 }
AddressConfirmations(tip_height, height) ==
    IF tip_height > height THEN tip_height - height + 1 ELSE 1

\* block_headers_subscribe().map(|h| h.height as u32).unwrap_or(0)
BitcoinAdapter_tip_height(e, fault) == IF fault.tip THEN 0 ELSE e.tip

\* The comparator of the address history: a is placed before b.
AddressHistoryBefore(a, b) ==
    \/ ~a.timestamp.some /\ b.timestamp.some
    \/ a.timestamp.some /\ b.timestamp.some /\ a.timestamp.val > b.timestamp.val

\* Vec::sort_by is stable: an entry goes after every entry it is not before.
RECURSIVE InsertAddressHistory(_, _)
InsertAddressHistory(sorted, entry) ==
    IF sorted = <<>> THEN <<entry>>
    ELSE IF AddressHistoryBefore(entry, Head(sorted))
         THEN <<entry>> \o sorted
         ELSE <<Head(sorted)>> \o InsertAddressHistory(Tail(sorted), entry)

RECURSIVE SortAddressHistory(_)
SortAddressHistory(entries) ==
    IF entries = <<>> THEN <<>>
    ELSE InsertAddressHistory(SortAddressHistory(SubSeq(entries, 1, Len(entries) - 1)),
                              entries[Len(entries)])

\* The loop over the history items: block_timestamps is the cache of the
\* header times fetched so far in this call.
RECURSIVE AddressHistoryLoop(_, _, _, _, _, _)
AddressHistoryLoop(history, tip_height, fault, block_timestamps, transactions, steps) ==
    IF history = <<>>
    THEN [result |-> Ok(SortAddressHistory(transactions)), steps |-> steps]
    ELSE IF fault.transaction
    THEN [result |-> Err(Bitcoin("Transaction fetch failed")),
          steps |-> Append(steps, Step("transaction_get", "failed"))]
    ELSE
      LET item == Head(history)
          tx == AddrTx(item.tx_hash)
          received == SumOwned(tx.outputs, AddrScript)
          direction == IF received > 0 THEN "Received" ELSE "Sent"
          got == Append(steps, Step("transaction_get", "ok"))
          cached == item.height \in DOMAIN block_timestamps
          fetched == IF item.height \in fault.headers
                     THEN 0 ELSE Electrum_block_time(item.height)
          block_time == IF cached THEN block_timestamps[item.height] ELSE fetched
          entry(status, timestamp) ==
              [txid |-> item.tx_hash, direction |-> direction,
               amount_sats |-> received, status |-> status, timestamp |-> timestamp]
      IN IF item.height > 0
         THEN AddressHistoryLoop(
                 Tail(history), tip_height, fault,
                 IF cached THEN block_timestamps
                 ELSE [h \in DOMAIN block_timestamps \cup {item.height} |->
                          IF h = item.height THEN fetched ELSE block_timestamps[h]],
                 Append(transactions,
                        entry(Confirmed(item.height, block_time,
                                        AddressConfirmations(tip_height, item.height)),
                              Some(block_time))),
                 IF cached THEN got
                 ELSE Append(got, Step("block_header",
                                       IF item.height \in fault.headers
                                       THEN "failed" ELSE "ok")))
         ELSE AddressHistoryLoop(Tail(history), tip_height, fault, block_timestamps,
                                 Append(transactions, entry(Unconfirmed, None)), got)

\* at_tip is the server when the tip is asked for, at_history when the
\* history is.
BitcoinAdapter_get_address_transactions(address, at_tip, at_history, fault) ==
    IF ~address.parses
    THEN [result |-> Err(Bitcoin("Invalid address")), steps |-> <<>>]
    ELSE IF fault.connect
    THEN [result |-> Err(Bitcoin("Electrum connection failed")),
          steps |-> <<Step("connect", "failed")>>]
    ELSE LET asked == <<Step("connect", "ok"),
                        Step("block_headers_subscribe",
                             IF fault.tip THEN "failed" ELSE "ok")>>
         IN IF fault.history
            THEN [result |-> Err(Bitcoin("History query failed")),
                  steps |-> Append(asked, Step("script_get_history", "failed"))]
            ELSE AddressHistoryLoop(
                     Electrum_script_get_history(at_history),
                     BitcoinAdapter_tip_height(at_tip, fault), fault,
                     [h \in {} |-> 0], <<>>,
                     Append(asked, Step("script_get_history", "ok")))

\* The seed is the one of wallet id `owner`; both descriptors carry its
\* account private key.
BitcoinAdapter_create_wallet_from_seed(fs, owner, wallet_id) ==
    LET opened == Connection_open(fs, wallet_id)
    IN IF opened[wallet_id].has_wallet
       THEN [files |-> opened, result |-> Err(Bitcoin("Wallet creation failed"))]
       ELSE [files |-> [opened EXCEPT ![wallet_id] =
                          WalletDb(BdkWallet("full", owner, {}, FALSE))],
             result |-> Ok(<<>>)]

BitcoinAdapter_load_wallet(fs, wallet_id) ==
    IF ~fs[wallet_id].exists THEN Err(Bitcoin("Wallet database not found"))
    ELSE IF ~fs[wallet_id].has_wallet THEN Err(Bitcoin("Wallet not found in database"))
    ELSE Ok(fs[wallet_id].wallet)

\* A client that tries the connection a second time before giving up.
BitcoinAdapter_connect_steps_Retry(server) ==
    IF server.connect_ok THEN <<Step("connect", "ok")>>
    ELSE <<Step("connect", "failed"), Step("connect", "failed")>>

\* The connection attempts of one create_electrum_client call.
BitcoinAdapter_connect_steps(server) ==
    <<Step("connect", IF BitcoinAdapter_create_electrum_client(server).ok
                      THEN "ok" ELSE "failed")>>

BitcoinAdapter_sync_wallet(wallet, server, chain) ==
    LET client == BitcoinAdapter_create_electrum_client(server)
        connect == BitcoinAdapter_connect_steps(server)
    IN IF ~client.ok
       THEN [wallet |-> wallet, result |-> client, steps |-> connect]
       ELSE IF ~server.scan_ok
       THEN [wallet |-> wallet,
             result |-> Err(Bitcoin("Blockchain sync failed")),
             steps |-> connect \o <<Step("full_scan", "failed")>>]
       ELSE [wallet |-> Wallet_apply_update(wallet, chain),
             result |-> Ok([stage |-> "Complete", progress |-> 100]),
             steps |-> connect \o <<Step("full_scan", "ok"), Step("apply_update", "ok")>>]

BitcoinBalance(confirmed, unconfirmed, immature, trusted_spendable) ==
    [confirmed |-> confirmed, unconfirmed |-> unconfirmed,
     immature |-> immature, trusted_spendable |-> trusted_spendable]

\* Every known transaction is confirmed in this model.
BitcoinAdapter_get_balance(wallet) ==
    LET confirmed == SumAmounts(Wallet_list_unspent(wallet))
    IN Ok(BitcoinBalance(confirmed, 0, 0, confirmed))

BitcoinAdapter_get_utxos(wallet) == Ok(Wallet_list_unspent(wallet))

\* One entry of get_transactions: `sent` is the constant 0 of the source.
BitcoinTransaction(wallet, tx) ==
    LET received == SumOwned(tx.outputs, wallet.owner)
        sent == 0
        amount_sats == received - sent
    IN [txid |-> tx.txid,
        direction |-> IF amount_sats > 0 THEN "Received"
                      ELSE IF amount_sats < 0 THEN "Sent"
                      ELSE "Internal",
        amount_sats |-> amount_sats,
        status |-> IF tx.block_height > 0
                   THEN Confirmed(tx.block_height, tx.block_time, 0)
                   ELSE Unconfirmed,
        timestamp |-> IF tx.block_height > 0 THEN Some(tx.block_time) ELSE None]

\* BitcoinTransaction::is_confirmed
BitcoinTransaction_is_confirmed(t) == t.status.type = "confirmed"

\* BitcoinTransaction::confirmations: the field of Confirmed, 0 for Unconfirmed.
BitcoinTransaction_confirmations(t) ==
    IF t.status.type = "confirmed" THEN t.status.confirmations ELSE 0

\* Option<u64>::cmp: None is less than every Some.
OptionLess(a, b) ==
    \/ ~a.some /\ b.some
    \/ a.some /\ b.some /\ a.val < b.val

\* transactions.sort_by(|a, b| b.timestamp.cmp(&a.timestamp))
RECURSIVE SortByTimestampDesc(_)
SortByTimestampDesc(entries) ==
    IF entries = {} THEN <<>>
    ELSE LET newest == CHOOSE e \in entries :
                           \A o \in entries : ~OptionLess(e.timestamp, o.timestamp)
         IN <<newest>> \o SortByTimestampDesc(entries \ {newest})

BitcoinAdapter_get_transactions(wallet) ==
    Ok(SortByTimestampDesc({ BitcoinTransaction(wallet, tx) : tx \in wallet.txs }))

\* The receiving address of an owner's external keychain at an index.
ExternalAddress(owner, index) == [keychain |-> "External", owner |-> owner, index |-> index]

\* wallet.reveal_next_address(KeychainKind::External) on the object passed in:
\* the change is in that object.
BitcoinAdapter_get_new_address(wallet) ==
    [wallet |-> [wallet EXCEPT !.next_external = @ + 1],
     result |-> Ok(ExternalAddress(wallet.owner, wallet.next_external))]

\* A recipient check without require_network.
BitcoinAdapter_parse_recipient_AnyNetwork(recipient_address) ==
    IF ~recipient_address.parses THEN Err(Bitcoin("Invalid recipient address"))
    ELSE Ok(recipient_address.text)

\* recipient.parse::<Address<NetworkUnchecked>>()?.require_network(network)?
BitcoinAdapter_parse_recipient(recipient_address) ==
    IF ~recipient_address.parses THEN Err(Bitcoin("Invalid recipient address"))
    ELSE IF recipient_address.network # AdapterNetwork
    THEN Err(Bitcoin("Address network mismatch"))
    ELSE Ok(recipient_address.text)

\* A check that lets an unfinished signature through.
BitcoinAdapter_check_finalized_Skipped(finalized) == Ok(<<>>)

\* if !finalized { return Err(..) }
BitcoinAdapter_check_finalized(finalized) ==
    IF finalized THEN Ok(<<>>)
    ELSE Err(Bitcoin("Transaction not fully signed - missing keys"))

\* A broadcast step that does not look at the flag.
BitcoinAdapter_broadcast_Always(broadcast, server) ==
    LET client == BitcoinAdapter_create_electrum_client(server)
        connect == BitcoinAdapter_connect_steps(server)
    IN IF ~client.ok THEN [result |-> client, steps |-> connect]
       ELSE IF ~server.accepts
       THEN [result |-> Err(Bitcoin("Transaction broadcast failed")),
             steps |-> connect \o <<Step("transaction_broadcast", "rejected")>>]
       ELSE [result |-> Ok(<<>>),
             steps |-> connect \o <<Step("transaction_broadcast", "ok")>>]

\* if broadcast { create_electrum_client()?; transaction_broadcast(&tx)? }
BitcoinAdapter_broadcast(broadcast, server) ==
    IF ~broadcast THEN [result |-> Ok(<<>>), steps |-> <<>>]
    ELSE LET client == BitcoinAdapter_create_electrum_client(server)
             connect == BitcoinAdapter_connect_steps(server)
         IN IF ~client.ok THEN [result |-> client, steps |-> connect]
            ELSE IF ~server.accepts
            THEN [result |-> Err(Bitcoin("Transaction broadcast failed")),
                  steps |-> connect \o <<Step("transaction_broadcast", "rejected")>>]
            ELSE [result |-> Ok(<<>>),
                  steps |-> connect \o <<Step("transaction_broadcast", "ok")>>]

SendTransactionResult(txid, fee_sats, broadcast) ==
    [txid |-> txid, tx_hex |-> <<"hex", txid>>, fee_sats |-> fee_sats,
     broadcast |-> broadcast]

BitcoinAdapter_create_and_send_transaction(wallet, recipient_address, amount_sats, fee_rate, broadcast, server) ==
    LET address == BitcoinAdapter_parse_recipient(recipient_address)
        parsed == <<Step("parse", IF address.ok THEN "ok" ELSE "failed")>>
    IN IF ~address.ok
       THEN [wallet |-> wallet, result |-> address, steps |-> parsed]
       ELSE
    LET psbt == Wallet_build_tx(wallet, amount_sats, fee_rate)
        built == parsed \o <<Step("build", IF psbt.ok THEN "ok" ELSE "failed")>>
    IN IF ~psbt.ok
       THEN [wallet |-> psbt.wallet,
             result |-> Err(Bitcoin("Transaction build failed")), steps |-> built]
       ELSE
    LET finalized == Wallet_sign(psbt.wallet)
        signed == built \o <<Step("sign", IF finalized THEN "finalized"
                                          ELSE "not_finalized")>>
        check == BitcoinAdapter_check_finalized(finalized)
    IN IF ~check.ok
       THEN [wallet |-> psbt.wallet, result |-> check, steps |-> signed]
       ELSE
    LET txid == <<"txid", wallet.owner, address.val, amount_sats>>
        sent == BitcoinAdapter_broadcast(broadcast, server)
        steps == signed \o <<Step("extract_tx", "ok")>> \o sent.steps
    IN IF ~sent.result.ok
       THEN [wallet |-> psbt.wallet, result |-> sent.result, steps |-> steps]
       ELSE [wallet |-> psbt.wallet,
             result |-> Ok(SendTransactionResult(txid, fee_rate, broadcast)),
             steps |-> steps]

\* ------------------------------------------------ commands/bitcoin.rs
\* Each command loads the wallet from its file, calls the adapter and drops
\* the wallet object. Gives the result, the steps and the object as dropped.
Dropped(wallet, result, steps) == [wallet |-> wallet, result |-> result, steps |-> steps]

bitcoin_sync_wallet(fs, wallet_id, server, chain) ==
    LET wallet == BitcoinAdapter_load_wallet(fs, wallet_id)
    IN IF ~wallet.ok THEN Dropped(NoWallet, wallet, <<>>)
       ELSE BitcoinAdapter_sync_wallet(wallet.val, server, chain)

bitcoin_get_balance(fs, wallet_id) ==
    LET wallet == BitcoinAdapter_load_wallet(fs, wallet_id)
    IN IF ~wallet.ok THEN wallet ELSE BitcoinAdapter_get_balance(wallet.val)

bitcoin_get_transactions(fs, wallet_id) ==
    LET wallet == BitcoinAdapter_load_wallet(fs, wallet_id)
    IN IF ~wallet.ok THEN wallet ELSE BitcoinAdapter_get_transactions(wallet.val)

bitcoin_get_utxos(fs, wallet_id) ==
    LET wallet == BitcoinAdapter_load_wallet(fs, wallet_id)
    IN IF ~wallet.ok THEN wallet ELSE BitcoinAdapter_get_utxos(wallet.val)

\* load_wallet, get_new_address(&mut wallet), and the wallet is dropped.
bitcoin_get_new_address(fs, wallet_id) ==
    LET wallet == BitcoinAdapter_load_wallet(fs, wallet_id)
    IN IF ~wallet.ok THEN wallet ELSE BitcoinAdapter_get_new_address(wallet.val).result

\* Err(Error::Bitcoin(msg)) if msg.contains("not found") => Ok(false)
bitcoin_wallet_exists(fs, wallet_id) ==
    LET wallet == BitcoinAdapter_load_wallet(fs, wallet_id)
    IN IF wallet.ok THEN Ok(TRUE)
       ELSE IF wallet.err[2] \in {"Wallet database not found",
                                  "Wallet not found in database"}
       THEN Ok(FALSE)
       ELSE wallet

bitcoin_send_transaction(fs, wallet_id, recipient_address, amount_sats, fee_rate, broadcast, server) ==
    LET wallet == BitcoinAdapter_load_wallet(fs, wallet_id)
    IN IF ~wallet.ok THEN Dropped(NoWallet, wallet, <<>>)
       ELSE BitcoinAdapter_create_and_send_transaction(
                wallet.val, recipient_address, amount_sats, fee_rate, broadcast, server)

\* ------------------------------------------------------------------- state
\* A call as recorded: its name, its arguments and what it returned.
Call(op, args, result) == [op |-> op, args |-> args, result |-> result]

Init ==
    /\ is_unlocked = SessionCache_new.unlocked
    /\ seeds = SessionCache_new.seeds
    /\ used = {}
    /\ last = [op |-> "none", args |-> <<>>, result |-> Ok(<<>>)]
    /\ lastCached = [w \in WalletIds |-> NoSeed]
    /\ phase = [w \in WalletIds |-> "none"]
    /\ sinceLock = FALSE
    /\ pc = [t \in Threads |-> "idle"]
    /\ arg = [t \in Threads |-> <<>>]
    /\ ret = [t \in Threads |-> Call("none", <<>>, Ok(<<>>))]
    /\ cachedAtStart = [t \in Threads |-> FALSE]
    /\ held = [t \in Threads |-> {}]
    /\ files = [w \in BtcWalletIds |-> NoFile]
    /\ tip = 0
    /\ mem = NoHandle
    /\ btcLast = BtcCall("none", <<>>, Ok(<<>>), <<>>)
    /\ electrum = ElectrumInit
    /\ ethereum_state = SessionCache_new
    /\ residue = {}

\* --------------------------------------------- Spec: one call at a time
\* A create or import that has run: out is the store and result it gave.
Created(op, args, out, id) ==
    /\ is_unlocked' = out.st.unlocked
    /\ seeds' = out.st.seeds
    /\ last' = Call(op, args, out.result)
    /\ IF out.result.ok
       THEN /\ used' = used \cup {id}
            /\ lastCached' = [lastCached EXCEPT ![id] = out.st.seeds[id]]
            /\ phase' = [phase EXCEPT ![id] = "cached"]
            /\ sinceLock' = FALSE
       ELSE UNCHANGED <<used, lastCached, phase, sinceLock>>
    /\ UNCHANGED <<concVars, guardVars, adapterVars>>

CreateHDWallet ==
    \E chains \in ChainLists, word_count \in WordCounts, entropy \in Entropies,
       id \in WalletIds \ used :
        Created("create_hd_wallet", [chains |-> chains, word_count |-> word_count],
                WalletManager_create_hd_wallet(St, chains, word_count, entropy, id), id)

ImportHDWallet ==
    \E phrase \in Phrases, chains \in ChainLists, id \in WalletIds \ used :
        Created("import_hd_wallet", [chains |-> chains, phrase |-> phrase],
                WalletManager_import_hd_wallet(St, phrase, chains, id), id)

DeriveAddress ==
    \E w \in WalletIds, chain_id \in RequestChainIds,
       account \in AccountIndices, index \in AccountIndices :
        /\ last' = Call("derive_address",
                        [wallet_id |-> w, chain_id |-> chain_id,
                         account |-> account, index |-> index],
                        WalletManager_derive_address(St, w, chain_id, account, index))
        /\ UNCHANGED <<is_unlocked, seeds, used, lastCached, phase, sinceLock>>
        /\ UNCHANGED <<concVars, guardVars, adapterVars>>

Lock ==
    LET st == WalletManager_lock(St)
    IN /\ is_unlocked' = st.unlocked
       /\ seeds' = st.seeds
       /\ last' = Call("lock", <<>>, Ok(<<>>))
       /\ phase' = [w \in WalletIds |->
                        IF phase[w] \in {"cached", "reunlocked"} THEN "locked"
                        ELSE phase[w]]
       /\ sinceLock' = TRUE
       /\ UNCHANGED <<used, lastCached>>
       /\ UNCHANGED <<concVars, guardVars, adapterVars>>

Unlock ==
    \E w \in WalletIds :
        LET out == WalletManager_unlock(St, w)
        IN /\ is_unlocked' = out.st.unlocked
           /\ seeds' = out.st.seeds
           /\ last' = Call("unlock", [wallet_id |-> w], out.result)
           /\ phase' = [phase EXCEPT ![w] = IF @ = "locked" THEN "reunlocked" ELSE @]
           /\ sinceLock' = FALSE
           /\ UNCHANGED <<used, lastCached>>
           /\ UNCHANGED <<concVars, guardVars, adapterVars>>

\* SecureStorage::get_seed called directly (as the bitcoin and ethereum
\* commands do).
GetSeed ==
    \E w \in WalletIds :
        /\ last' = Call("get_seed", [wallet_id |-> w], SecureStorage_get_seed(St, w))
        /\ UNCHANGED <<is_unlocked, seeds, used, lastCached, phase, sinceLock>>
        /\ UNCHANGED <<concVars, guardVars, adapterVars>>

\* SecureStorage::cache_seed called directly with any id and seed.
CacheSeed ==
    \E w \in WalletIds, seed \in Seeds :
        LET st == SecureStorage_cache_seed(St, w, seed)
        IN /\ is_unlocked' = st.unlocked
           /\ seeds' = st.seeds
           /\ used' = used \cup {w}
           /\ last' = Call("cache_seed", [wallet_id |-> w, seed |-> seed], Ok(<<>>))
           /\ lastCached' = [lastCached EXCEPT ![w] = seed]
           /\ phase' = [phase EXCEPT ![w] = "cached"]
           /\ sinceLock' = FALSE
           /\ UNCHANGED <<concVars, guardVars, adapterVars>>

\* WalletManager::validate_address: the registry's answer, store untouched.
ValidateAddress ==
    \E chain_id \in RequestChainIds \cup EvmChainIds, address \in AddressStrings :
        /\ last' = Call("validate_address",
                        [chain_id |-> chain_id, address |-> address],
                        WalletManager_validate_address(chain_id, address))
        /\ UNCHANGED <<is_unlocked, seeds, used, lastCached, phase, sinceLock>>
        /\ UNCHANGED <<concVars, guardVars, adapterVars>>

Next ==
    \/ CreateHDWallet
    \/ ImportHDWallet
    \/ DeriveAddress
    \/ Lock
    \/ Unlock
    \/ GetSeed
    \/ CacheSeed
    \/ ValidateAddress

Spec == Init /\ [][Next]_vars

\* ------------------------------------- SpecConc: callers of SecureStorage
\* Each step takes one RwLock guard and drops it at the end of its statement.
NoCall == Call("none", <<>>, Ok(<<>>))

\* A caller starts a call: it moves to the call's second statement.
Begin(t, at, args) ==
    /\ pc' = [pc EXCEPT ![t] = at]
    /\ arg' = [arg EXCEPT ![t] = args]
    /\ ret' = [ret EXCEPT ![t] = NoCall]

\* A caller's call returns.
Done(t, op, args, result) ==
    /\ pc' = [pc EXCEPT ![t] = "idle"]
    /\ arg' = [arg EXCEPT ![t] = <<>>]
    /\ ret' = [ret EXCEPT ![t] = Call(op, args, result)]

\* get_seed, first statement: if !self.is_unlocked() { return Err(WalletLocked) }
GetSeedReadFlag(t) ==
    \E w \in WalletIds :
        /\ pc[t] = "idle"
        /\ cachedAtStart' = [cachedAtStart EXCEPT ![t] = SessionCache_has_seed(St, w)]
        /\ IF SecureStorage_is_unlocked(St)
           THEN Begin(t, "get_seed_map", [wallet_id |-> w])
           ELSE Done(t, "get_seed", [wallet_id |-> w],
                     SecureStorage_get_seed_from(FALSE, NoSeed, w))
        /\ UNCHANGED <<is_unlocked, seeds, used>>
        /\ UNCHANGED <<seqVars, guardVars, adapterVars>>

\* get_seed, second statement: self.session_cache.get_seed(wallet_id).ok_or_else(..)
GetSeedReadMap(t) ==
    /\ pc[t] = "get_seed_map"
    /\ Done(t, "get_seed", arg[t],
            SecureStorage_get_seed_from(TRUE, SessionCache_get_seed(St, arg[t].wallet_id),
                                        arg[t].wallet_id))
    /\ UNCHANGED <<is_unlocked, seeds, used, cachedAtStart>>
    /\ UNCHANGED <<seqVars, guardVars, adapterVars>>

\* cache_seed, first statement: self.session_cache.set_unlocked(true)
CacheSeedSetFlag(t) ==
    \E w \in WalletIds, seed \in Seeds :
        /\ pc[t] = "idle"
        /\ is_unlocked' = SessionCache_set_unlocked(St, TRUE).unlocked
        /\ Begin(t, "cache_seed_insert", [wallet_id |-> w, seed |-> seed])
        /\ UNCHANGED <<seeds, used, cachedAtStart>>
        /\ UNCHANGED <<seqVars, guardVars, adapterVars>>

\* cache_seed, second statement: self.session_cache.cache_seed(wallet_id, seed)
CacheSeedInsert(t) ==
    /\ pc[t] = "cache_seed_insert"
    /\ seeds' = SessionCache_cache_seed(St, arg[t].wallet_id, arg[t].seed).seeds
    /\ used' = used \cup {arg[t].wallet_id}
    /\ Done(t, "cache_seed", <<>>, Ok(<<>>))
    /\ UNCHANGED <<is_unlocked, cachedAtStart>>
    /\ UNCHANGED <<seqVars, guardVars, adapterVars>>

\* lock -> clear, first statement: self.seeds.write().clear()
LockClearSeeds(t) ==
    /\ pc[t] = "idle"
    /\ seeds' = SessionCache_clear_seeds(St).seeds
    /\ Begin(t, "lock_flag", <<>>)
    /\ UNCHANGED <<is_unlocked, used, cachedAtStart>>
    /\ UNCHANGED <<seqVars, guardVars, adapterVars>>

\* lock -> clear, second statement: *self.is_unlocked.write() = false
LockClearFlag(t) ==
    /\ pc[t] = "lock_flag"
    /\ is_unlocked' = SessionCache_clear_flag(St).unlocked
    /\ Done(t, "lock", <<>>, Ok(<<>>))
    /\ UNCHANGED <<seeds, used, cachedAtStart>>
    /\ UNCHANGED <<seqVars, guardVars, adapterVars>>

\* unlock: self.session_cache.set_unlocked(true)
UnlockSetFlag(t) ==
    /\ pc[t] = "idle"
    /\ is_unlocked' = SecureStorage_unlock(St).unlocked
    /\ Done(t, "unlock", <<>>, Ok(<<>>))
    /\ UNCHANGED <<seeds, used, cachedAtStart>>
    /\ UNCHANGED <<seqVars, guardVars, adapterVars>>

NextConc ==
    \E t \in Threads :
        \/ GetSeedReadFlag(t)
        \/ GetSeedReadMap(t)
        \/ CacheSeedSetFlag(t)
        \/ CacheSeedInsert(t)
        \/ LockClearSeeds(t)
        \/ LockClearFlag(t)
        \/ UnlockSetFlag(t)

SpecConc == Init /\ [][NextConc]_vars

\* ------------------------- SpecLock: lock() against callers that read seeds
\* The two RwLocks of SessionCache, with the guards a caller holds from one
\* statement to the next. A statement needs its lock: a read needs no other
\* caller to hold the write guard, a write needs no other caller to hold any
\* guard on that lock. Results are not recorded here.
RwLocks == {"seeds", "is_unlocked"}
GuardsOn == RwLocks \X {"read", "write"}

CanRead(t, lock) == \A u \in Threads \ {t} : <<lock, "write">> \notin held[u]
CanWrite(t, lock) ==
    \A u \in Threads \ {t} : held[u] \cap {<<lock, "read">>, <<lock, "write">>} = {}

\* A get_seed that hands back a view into the map, keeping the read guard.
SessionCache_get_seed_guards_Borrowed == {<<"seeds", "read">>}

\* What the caller of SessionCache::get_seed still holds once it has returned:
\* nothing. `self.seeds.read().get(id).map(|s| **s)` copies the 64 bytes out
\* and the read guard is a temporary of that statement.
SessionCache_get_seed_guards == {}

\* The chain and indices a derivation in SpecLock asks for.
LockDeriveArgs == [chain_id : {"bitcoin"}, account : {0}, index : {0}]

\* A caller moves on inside its call, or returns (at = "idle").
Goto(t, at, args, guards) ==
    /\ pc' = [pc EXCEPT ![t] = at]
    /\ arg' = [arg EXCEPT ![t] = args]
    /\ held' = [held EXCEPT ![t] = guards]
    /\ UNCHANGED <<used, ret, cachedAtStart>>
    /\ UNCHANGED <<seqVars, adapterVars>>

\* get_seed(w), called directly or as the first line of derive_address:
\* if !self.is_unlocked() { return Err(WalletLocked) }
GuardedReadFlag(t) ==
    \E w \in WalletIds, op \in {"get_seed", "derive_address"}, d \in LockDeriveArgs :
        /\ pc[t] = "idle"
        /\ CanRead(t, "is_unlocked")
        /\ IF SecureStorage_is_unlocked(St)
           THEN Goto(t, "seed_map", [op |-> op, wallet_id |-> w, derive |-> d], {})
           ELSE Goto(t, "idle", <<>>, {})
        /\ UNCHANGED <<is_unlocked, seeds>>

\* self.session_cache.get_seed(wallet_id).ok_or_else(..)?: get_seed returns
\* here; derive_address goes on to the registry with its copy of the seed.
GuardedReadMap(t) ==
    /\ pc[t] = "seed_map"
    /\ CanRead(t, "seeds")
    /\ LET seed == SecureStorage_get_seed_from(
                       TRUE, SessionCache_get_seed(St, arg[t].wallet_id),
                       arg[t].wallet_id)
       IN IF seed.ok /\ arg[t].op = "derive_address"
          THEN Goto(t, "derive_compute",
                    [wallet_id |-> arg[t].wallet_id, derive |-> arg[t].derive,
                     seed |-> seed.val],
                    SessionCache_get_seed_guards)
          ELSE Goto(t, "idle", <<>>, {})
    /\ UNCHANGED <<is_unlocked, seeds>>

\* self.registry.derive_address(chain_id, &seed, account, index), then return:
\* whatever the call still held is dropped with its locals.
GuardedDerive(t) ==
    /\ pc[t] = "derive_compute"
    /\ LET address == ChainRegistry_derive_address(
                          arg[t].derive.chain_id, arg[t].seed,
                          arg[t].derive.account, arg[t].derive.index)
       IN address.ok \in BOOLEAN   \* handed to the caller, not kept here
    /\ Goto(t, "idle", <<>>, {})
    /\ UNCHANGED <<is_unlocked, seeds>>

\* cache_seed: self.session_cache.set_unlocked(true)
GuardedSetFlag(t) ==
    \E w \in WalletIds, seed \in Seeds :
        /\ pc[t] = "idle"
        /\ CanWrite(t, "is_unlocked")
        /\ is_unlocked' = SessionCache_set_unlocked(St, TRUE).unlocked
        /\ Goto(t, "cache_seed_insert", [wallet_id |-> w, seed |-> seed], {})
        /\ UNCHANGED seeds

\* cache_seed: self.session_cache.cache_seed(wallet_id, seed)
GuardedInsert(t) ==
    /\ pc[t] = "cache_seed_insert"
    /\ CanWrite(t, "seeds")
    /\ seeds' = SessionCache_cache_seed(St, arg[t].wallet_id, arg[t].seed).seeds
    /\ Goto(t, "idle", <<>>, {})
    /\ UNCHANGED is_unlocked

\* lock -> clear: self.seeds.write().clear()
GuardedClearSeeds(t) ==
    /\ pc[t] = "idle"
    /\ CanWrite(t, "seeds")
    /\ seeds' = SessionCache_clear_seeds(St).seeds
    /\ Goto(t, "lock_flag", <<>>, {})
    /\ UNCHANGED is_unlocked

\* lock -> clear: *self.is_unlocked.write() = false
GuardedClearFlag(t) ==
    /\ pc[t] = "lock_flag"
    /\ CanWrite(t, "is_unlocked")
    /\ is_unlocked' = SessionCache_clear_flag(St).unlocked
    /\ Goto(t, "idle", <<>>, {})
    /\ UNCHANGED seeds

NextLock ==
    \E t \in Threads :
        \/ GuardedReadFlag(t)
        \/ GuardedReadMap(t)
        \/ GuardedDerive(t)
        \/ GuardedSetFlag(t)
        \/ GuardedInsert(t)
        \/ GuardedClearSeeds(t)
        \/ GuardedClearFlag(t)

SpecLock == Init /\ [][NextLock]_vars

\* ------------------------------- SpecBtc: the Bitcoin adapter and commands
FeeRates == {1}

\* bitcoin_create_wallet / bitcoin_init_from_cached_seed with wallet w's seed.
BtcCreateWallet ==
    \E w \in BtcWalletIds :
        LET out == BitcoinAdapter_create_wallet_from_seed(files, w, w)
        IN /\ files' = out.files
           /\ btcLast' = BtcCall("create_wallet_from_seed", [wallet_id |-> w],
                                 out.result, <<>>)
           /\ UNCHANGED <<tip, mem>>
           /\ UNCHANGED <<sessionVars, histVars>>

BtcCreateWatchWallet ==
    \E w \in BtcWalletIds, address_or_xpub \in WatchInputs :
        LET out == BitcoinAdapter_create_watch_wallet(files, address_or_xpub, w)
        IN /\ files' = out.files
           /\ btcLast' = BtcCall("create_watch_wallet",
                                 [wallet_id |-> w, xpub |-> address_or_xpub,
                                  existed |-> files[w].exists],
                                 out.result, <<>>)
           /\ UNCHANGED <<tip, mem>>
           /\ UNCHANGED <<sessionVars, histVars>>

\* A caller of the adapter loads a wallet and keeps the object.
BtcLoadWallet ==
    \E w \in BtcWalletIds :
        LET wallet == BitcoinAdapter_load_wallet(files, w)
        IN /\ mem' = IF wallet.ok THEN Handle(w, wallet.val) ELSE mem
           /\ btcLast' = BtcCall("load_wallet", [wallet_id |-> w],
                                 IF wallet.ok THEN Ok(<<>>) ELSE wallet, <<>>)
           /\ UNCHANGED <<files, tip>>
           /\ UNCHANGED <<sessionVars, histVars>>

\* sync_wallet(&mut wallet) on the object the caller holds.
BtcSyncWallet ==
    \E server \in Servers :
        /\ mem.loaded
        /\ LET out == BitcoinAdapter_sync_wallet(mem.wallet, server, Chain(tip))
           IN /\ mem' = [mem EXCEPT !.wallet = out.wallet]
              /\ btcLast' = BtcCall("sync_wallet", [wallet_id |-> mem.wallet_id],
                                    out.result, out.steps)
        /\ UNCHANGED <<files, tip>>
        /\ UNCHANGED <<sessionVars, histVars>>

\* get_transactions(&wallet) on the object the caller holds.
BtcGetTransactions ==
    /\ mem.loaded
    /\ btcLast' = BtcCall("get_transactions", [wallet_id |-> mem.wallet_id],
                          BitcoinAdapter_get_transactions(mem.wallet), <<>>)
    /\ UNCHANGED <<files, tip, mem>>
    /\ UNCHANGED <<sessionVars, histVars>>

\* create_and_send_transaction(&mut wallet, ..) on the object the caller holds.
BtcCreateAndSend ==
    \E recipient_address \in Recipients, amount_sats \in SendAmounts,
       fee_rate \in FeeRates, broadcast \in BOOLEAN, server \in Servers :
        /\ mem.loaded
        /\ LET out == BitcoinAdapter_create_and_send_transaction(
                          mem.wallet, recipient_address, amount_sats, fee_rate,
                          broadcast, server)
           IN /\ mem' = [mem EXCEPT !.wallet = out.wallet]
              /\ btcLast' = BtcCall("create_and_send_transaction",
                                    [wallet_id |-> mem.wallet_id,
                                     recipient_address |-> recipient_address,
                                     amount_sats |-> amount_sats,
                                     broadcast |-> broadcast],
                                    out.result, out.steps)
        /\ UNCHANGED <<files, tip>>
        /\ UNCHANGED <<sessionVars, histVars>>

\* A command: nothing it does outlives it except what it wrote to the files,
\* and none of these writes.
Command(op, args, result, steps) ==
    /\ btcLast' = BtcCall(op, args, result, steps)
    /\ UNCHANGED <<files, tip, mem>>
    /\ UNCHANGED <<sessionVars, histVars>>

CmdSyncWallet ==
    \E w \in BtcWalletIds, server \in Servers :
        LET out == bitcoin_sync_wallet(files, w, server, Chain(tip))
        IN Command("bitcoin_sync_wallet",
                   [wallet_id |-> w, found |-> out.wallet.txs], out.result, out.steps)

CmdGetBalance ==
    \E w \in BtcWalletIds :
        Command("bitcoin_get_balance", [wallet_id |-> w],
                bitcoin_get_balance(files, w), <<>>)

CmdGetTransactions ==
    \E w \in BtcWalletIds :
        Command("bitcoin_get_transactions", [wallet_id |-> w],
                bitcoin_get_transactions(files, w), <<>>)

CmdGetUtxos ==
    \E w \in BtcWalletIds :
        Command("bitcoin_get_utxos", [wallet_id |-> w],
                bitcoin_get_utxos(files, w), <<>>)

CmdWalletExists ==
    \E w \in BtcWalletIds :
        Command("bitcoin_wallet_exists", [wallet_id |-> w],
                bitcoin_wallet_exists(files, w), <<>>)

\* broadcast: Option<bool>, unwrap_or(true).
CmdSendTransaction ==
    \E w \in BtcWalletIds, recipient_address \in Recipients, amount_sats \in SendAmounts,
       fee_rate \in FeeRates, broadcast \in {"none", "true", "false"},
       server \in Servers :
        LET out == bitcoin_send_transaction(files, w, recipient_address, amount_sats,
                                            fee_rate, broadcast # "false", server)
        IN Command("bitcoin_send_transaction",
                   [wallet_id |-> w, recipient_address |-> recipient_address,
                    amount_sats |-> amount_sats, broadcast |-> broadcast # "false"],
                   out.result, out.steps)

\* The server learns of the next transaction.
ServerAdvance ==
    /\ tip < Len(TxPool)
    /\ tip' = tip + 1
    /\ UNCHANGED <<files, mem, btcLast>>
    /\ UNCHANGED <<sessionVars, histVars>>

NextBtc ==
    \/ BtcCreateWallet
    \/ BtcCreateWatchWallet
    \/ BtcLoadWallet
    \/ BtcSyncWallet
    \/ BtcGetTransactions
    \/ BtcCreateAndSend
    \/ CmdSyncWallet
    \/ CmdGetBalance
    \/ CmdGetTransactions
    \/ CmdGetUtxos
    \/ CmdWalletExists
    \/ CmdSendTransaction
    \/ ServerAdvance

SpecBtc == Init /\ [][NextBtc]_vars

\* ------------------------------------ SpecAddr: receiving addresses
\* Wallets are created and loaded as in SpecBtc; addresses are asked for on
\* the object a caller holds and through the command.
MaxReveal == 3

\* get_new_address(&mut wallet) on the object the caller holds.
BtcGetNewAddress ==
    /\ mem.loaded
    /\ mem.wallet.next_external < MaxReveal
    /\ LET out == BitcoinAdapter_get_new_address(mem.wallet)
       IN /\ mem' = Handle(mem.wallet_id, out.wallet)
          /\ btcLast' = BtcCall("get_new_address", [wallet_id |-> mem.wallet_id],
                                out.result, <<>>)
    /\ UNCHANGED <<files, tip>>
    /\ UNCHANGED <<sessionVars, histVars>>

CmdGetNewAddress ==
    \E w \in BtcWalletIds :
        Command("bitcoin_get_new_address", [wallet_id |-> w],
                bitcoin_get_new_address(files, w), <<>>)

NextAddr ==
    \/ BtcCreateWallet
    \/ BtcCreateWatchWallet
    \/ BtcLoadWallet
    \/ BtcGetNewAddress
    \/ CmdGetNewAddress

SpecAddr == Init /\ [][NextAddr]_vars

\* --------------------------- SpecOrder: the order of the wallet history
\* As SpecBtc, with a server whose mempool holds the transaction that the
\* next block will confirm, so that a scanned wallet can hold confirmed and
\* unconfirmed transactions together.
OrdSyncWallet ==
    \E server \in Servers :
        /\ mem.loaded
        /\ LET out == BitcoinAdapter_sync_wallet(mem.wallet, server, ChainWithMempool(tip))
           IN /\ mem' = [mem EXCEPT !.wallet = out.wallet]
              /\ btcLast' = BtcCall("sync_wallet", [wallet_id |-> mem.wallet_id],
                                    out.result, out.steps)
        /\ UNCHANGED <<files, tip>>
        /\ UNCHANGED <<sessionVars, histVars>>

NextOrder ==
    \/ BtcCreateWallet
    \/ BtcLoadWallet
    \/ OrdSyncWallet
    \/ BtcGetTransactions
    \/ ServerAdvance

SpecOrder == Init /\ [][NextOrder]_vars

\* --------------------------------------------- SpecCmd: the Tauri commands
\* create_hd_wallet, import_hd_wallet, derive_wallet_address and lock_wallet
\* are CreateHDWallet, ImportHDWallet, DeriveAddress and Lock on the manager
\* of get_wallet_manager(), whose store is (is_unlocked, seeds). The
\* ethereum_* commands take the manager of EthereumState, which run() builds
\* with its own WalletManager::new().
StringError(context, cause) == <<"String", context, cause>>

get_ethereum_private_key(st, wallet_id, account_index, address_index) ==
    LET seed == SecureStorage_get_seed(st, wallet_id)
        derived == derive_key_from_seed(
                       seed.val, EthereumModule_derivation_path(account_index, address_index))
    IN IF ~seed.ok THEN Err(StringError("Failed to get seed", seed.err))
       ELSE IF ~derived.ok THEN Err(StringError("Failed to derive key", derived.err))
       ELSE Ok(derived.val)

ethereum_get_address(st, wallet_id, account_index, address_index) ==
    LET signing_key == get_ethereum_private_key(st, wallet_id, account_index, address_index)
    IN IF ~signing_key.ok THEN signing_key
       ELSE Ok(<<"eip55", signing_key.val>>)

ethereum_sign_message(st, wallet_id, message, account_index, address_index) ==
    LET signing_key == get_ethereum_private_key(st, wallet_id, account_index, address_index)
    IN IF ~signing_key.ok THEN signing_key
       ELSE Ok(<<"signature", signing_key.val, message>>)

bitcoin_init_from_cached_seed(st, fs, wallet_id) ==
    LET seed == SecureStorage_get_seed(st, wallet_id)
    IN IF ~seed.ok
       THEN [files |-> fs, result |-> Err(Bitcoin("Failed to get cached seed"))]
       ELSE BitcoinAdapter_create_wallet_from_seed(fs, wallet_id, wallet_id)

CmdEthereumGetAddress ==
    \E w \in WalletIds, account \in AccountIndices, index \in AccountIndices :
        /\ last' = Call("ethereum_get_address",
                        [wallet_id |-> w, account |-> account, index |-> index],
                        ethereum_get_address(ethereum_state, w, account, index))
        /\ UNCHANGED <<is_unlocked, seeds, used, lastCached, phase, sinceLock>>
        /\ UNCHANGED <<concVars, guardVars, adapterVars>>

CmdEthereumSignMessage ==
    \E w \in WalletIds, account \in AccountIndices, index \in AccountIndices :
        /\ last' = Call("ethereum_sign_message",
                        [wallet_id |-> w, account |-> account, index |-> index],
                        ethereum_sign_message(ethereum_state, w, "message", account, index))
        /\ UNCHANGED <<is_unlocked, seeds, used, lastCached, phase, sinceLock>>
        /\ UNCHANGED <<concVars, guardVars, adapterVars>>

CmdBitcoinInitFromCachedSeed ==
    \E w \in WalletIds \cap BtcWalletIds :
        LET out == bitcoin_init_from_cached_seed(St, files, w)
        IN /\ last' = Call("bitcoin_init_from_cached_seed", [wallet_id |-> w], out.result)
           /\ files' = out.files
           /\ UNCHANGED <<is_unlocked, seeds, used, lastCached, phase, sinceLock>>
           /\ UNCHANGED <<concVars, guardVars, tip, mem, btcLast, histVars, cmdVars, memVars>>

NextCmd ==
    \/ CreateHDWallet
    \/ ImportHDWallet
    \/ DeriveAddress
    \/ Lock
    \/ CmdEthereumGetAddress
    \/ CmdEthereumSignMessage
    \/ CmdBitcoinInitFromCachedSeed

SpecCmd == Init /\ [][NextCmd]_vars

\* ------------------------------------- SpecMem: where seed bytes remain
\* A seed lives in the cache inside Zeroizing<[u8; 64]>, whose drop overwrites
\* it, and in mnemonic_to_seed's SecretSeed, likewise. Every other copy is a
\* plain [u8; 64], which is Copy and has no destructor: when its owner returns,
\* its bytes stay where they were until something else is written there.
\* residue holds those copies, by seed and by the place that made them.
SeedCopy(seed, site) == [seed |-> seed, site |-> site]

\* SessionCache::get_seed copies the array out of its wrapper (**s) and
\* returns it by value: to SecureStorage::get_seed's caller.
SessionCache_get_seed_copies(result) ==
    IF result.ok THEN {SeedCopy(result.val, "get_seed")} ELSE {}

\* create_hd_wallet and import_hd_wallet pass *seed.as_bytes(), a copy of the
\* SecretSeed's array, to cache_seed, which copies it again into the wrapper.
SecureStorage_cache_seed_copies(out, id) ==
    IF out.result.ok THEN {SeedCopy(out.st.seeds[id], "cache_seed")} ELSE {}

MemCreated(op, args, out, id) ==
    /\ is_unlocked' = out.st.unlocked
    /\ seeds' = out.st.seeds
    /\ last' = Call(op, args, out.result)
    /\ used' = IF out.result.ok THEN used \cup {id} ELSE used
    /\ residue' = residue \cup SecureStorage_cache_seed_copies(out, id)
    /\ UNCHANGED <<lastCached, phase, sinceLock, concVars, guardVars>>
    /\ UNCHANGED <<btcVars, histVars, cmdVars>>

MemCreateHDWallet ==
    \E chains \in ChainLists, word_count \in WordCounts, entropy \in Entropies, id \in WalletIds \ used :
        MemCreated("create_hd_wallet", [chains |-> chains, word_count |-> word_count],
                   WalletManager_create_hd_wallet(St, chains, word_count, entropy, id), id)

MemImportHDWallet ==
    \E phrase \in Phrases, chains \in ChainLists, id \in WalletIds \ used :
        MemCreated("import_hd_wallet", [chains |-> chains, phrase |-> phrase],
                   WalletManager_import_hd_wallet(St, phrase, chains, id), id)

\* derive_address keeps get_seed's copy in its local `seed` until it returns.
MemDeriveAddress ==
    \E w \in WalletIds, chain_id \in RequestChainIds, account \in AccountIndices, index \in AccountIndices :
        /\ last' = Call("derive_address",
                        [wallet_id |-> w, chain_id |-> chain_id,
                         account |-> account, index |-> index],
                        WalletManager_derive_address(St, w, chain_id, account, index))
        /\ residue' = residue \cup SessionCache_get_seed_copies(SecureStorage_get_seed(St, w))
        /\ UNCHANGED <<is_unlocked, seeds, used, lastCached, phase, sinceLock>>
        /\ UNCHANGED <<concVars, guardVars, btcVars, histVars, cmdVars>>

\* get_seed called by a command, which drops the array when it returns.
MemGetSeed ==
    \E w \in WalletIds :
        LET result == SecureStorage_get_seed(St, w)
        IN /\ last' = Call("get_seed", [wallet_id |-> w], result)
           /\ residue' = residue \cup SessionCache_get_seed_copies(result)
           /\ UNCHANGED <<is_unlocked, seeds, used, lastCached, phase, sinceLock>>
           /\ UNCHANGED <<concVars, guardVars, btcVars, histVars, cmdVars>>

\* lock: clear() drops every Zeroizing value of the map, which overwrites it;
\* it reaches nothing outside the map.
MemLock ==
    LET st == WalletManager_lock(St)
    IN /\ is_unlocked' = st.unlocked
       /\ seeds' = st.seeds
       /\ last' = Call("lock", <<>>, Ok(<<>>))
       /\ UNCHANGED <<residue, used, lastCached, phase, sinceLock>>
       /\ UNCHANGED <<concVars, guardVars, btcVars, histVars, cmdVars>>

\* Later calls may or may not write over the place a dropped copy was in.
MemOverwritten ==
    \E c \in residue :
        /\ residue' = residue \ {c}
        /\ UNCHANGED <<is_unlocked, seeds, used, seqVars>>
        /\ UNCHANGED <<concVars, guardVars, btcVars, histVars, cmdVars>>

NextMem ==
    \/ MemCreateHDWallet
    \/ MemImportHDWallet
    \/ MemDeriveAddress
    \/ MemGetSeed
    \/ MemLock
    \/ MemOverwritten

SpecMem == Init /\ [][NextMem]_vars

\* ------------------------------------ SpecDerive: the registry on its own
\* Accounts and indices over the whole word: the smallest two, and the same
\* two with the top bit set.
ChildNumbers == {0, 1, HARDENED_FLAG, HARDENED_FLAG + 1}

RegistryDeriveAddress ==
    \E chain_id \in ChainRegistry_new, seed \in Seeds,
       account \in ChildNumbers, index \in ChildNumbers :
        /\ last' = Call("registry_derive_address",
                        [chain_id |-> chain_id, seed |-> seed,
                         account |-> account, index |-> index],
                        ChainRegistry_derive_address(chain_id, seed, account, index))
        /\ UNCHANGED <<is_unlocked, seeds, used, lastCached, phase, sinceLock,
                       concVars, guardVars, adapterVars>>

NextDerive == RegistryDeriveAddress

SpecDerive == Init /\ [][NextDerive]_vars

\* ------------------------------- SpecHist: the single-address history
\* The literal addresses a history is asked for.
HistAddresses == { a \in WatchInputs : BitcoinAdapter_is_single_address(a) }

\* A transaction reaches the server.
HistTxSeen ==
    \E txid \in AddrTxIds \ electrum.seen :
        /\ AddrTx(txid).parents \subseteq electrum.seen
        /\ electrum' = Electrum_see(electrum, txid)
        /\ UNCHANGED <<sessionVars, btcVars>>

\* The blocks that can come next: any part of the mempool whose parents are
\* mined or in the block.
NextBlocks(e) ==
    { mined \in SUBSET Electrum_mempool(e) :
        \A t \in mined : \A p \in AddrTx(t).parents : p \in mined \/ e.height[p] > 0 }

HistNewBlock ==
    /\ electrum.tip < MaxTip
    /\ \E mined \in NextBlocks(electrum) :
           electrum' = Electrum_new_block(electrum, mined)
    /\ UNCHANGED <<sessionVars, btcVars>>

\* get_address_transactions; with `arrives` a block is found between the
\* call's tip query and its history query.
HistGetAddressTransactions ==
    \E address \in HistAddresses, fault \in Faults, arrives \in BOOLEAN :
        /\ arrives => /\ electrum.tip < MaxTip
                      /\ address.parses
                      /\ ~fault.connect
        /\ LET at_history == IF arrives
                             THEN Electrum_new_block(electrum, Electrum_mempool(electrum))
                             ELSE electrum
               out == BitcoinAdapter_get_address_transactions(
                          address, electrum, at_history, fault)
           IN /\ electrum' = at_history
              /\ btcLast' = BtcCall("get_address_transactions",
                                    [address |-> address, fault |-> fault,
                                     tip |-> electrum.tip, arrives |-> arrives],
                                    out.result, out.steps)
        /\ UNCHANGED <<sessionVars, files, tip, mem>>

NextHist ==
    \/ HistTxSeen
    \/ HistNewBlock
    \/ HistGetAddressTransactions

SpecHist == Init /\ [][NextHist]_vars

\* ================================================================== claims
IsGetSeed == last.op = "get_seed"
IsDerive == last.op = "derive_address"
IsCreate == last.op \in {"create_hd_wallet", "import_hd_wallet"}
NoSeedResident == \A w \in WalletIds : seeds[w] = NoSeed

\* C1: get_seed checks the flag before the map. Locked: WalletLocked for every
\* id. Unlocked and id absent: WalletNotFound(id). Unlocked and id present: the
\* seed most recently cached for that id. (get_seed changes nothing, so the
\* state it ran in is the state in which it is the last call.)
C1_GetSeedContract ==
    IsGetSeed =>
        LET w == last.args.wallet_id
        IN /\ ~is_unlocked => last.result = Err(WalletLocked)
           /\ (is_unlocked /\ seeds[w] = NoSeed) => last.result = Err(WalletNotFound(w))
           /\ (is_unlocked /\ seeds[w] # NoSeed) => last.result = Ok(lastCached[w])

\* C1 witness: after a lock() that cleared another wallet, get_seed returned
\* the seed cached under its id since.
C1_Witness ==
    /\ IsGetSeed
    /\ is_unlocked
    /\ last.result = Ok(lastCached[last.args.wallet_id])
    /\ \E w \in WalletIds : w # last.args.wallet_id /\ phase[w] = "locked"

\* C2: after lock(), derive_address for an id cached before the lock fails
\* with WalletLocked for as long as no cache_seed or unlock has run since.
C2_LockedDerivationFails ==
    (IsDerive /\ sinceLock /\ phase[last.args.wallet_id] = "locked")
        => last.result = Err(WalletLocked)

\* C2 witness: such a derivation was attempted, for a registered chain, and got
\* WalletLocked.
C2_Witness ==
    /\ IsDerive
    /\ sinceLock
    /\ phase[last.args.wallet_id] = "locked"
    /\ ChainRegistry_is_supported(last.args.chain_id)
    /\ last.result = Err(WalletLocked)

\* C3: when lock() returns, with no other call in progress, is_unlocked() is
\* false and has_seed(w) is false for every wallet id.
C3_LockClearsAll ==
    last.op = "lock" =>
        /\ ~WalletManager_is_unlocked(St)
        /\ \A w \in WalletIds : ~SessionCache_has_seed(St, w)

\* C3 witness: lock() returned after two wallets had been cached.
C3_Witness ==
    /\ last.op = "lock"
    /\ Cardinality({ w \in WalletIds : phase[w] = "locked" }) >= 2

\* C4 (as claimed): a get_seed(w) that started while w was cached, and ran
\* alongside lock(), returns the seed or WalletLocked, never WalletNotFound.
C4_NoNotFoundDuringLock ==
    \A t \in Threads :
        (pc[t] = "idle" /\ ret[t].op = "get_seed" /\ cachedAtStart[t])
            => ret[t].result # Err(WalletNotFound(ret[t].args.wallet_id))

\* C5 (as claimed): whenever no cache_seed or lock call is in progress, a
\* locked session holds no seed.
C5_LockedMeansEmpty ==
    (\A t \in Threads : pc[t] \notin {"cache_seed_insert", "lock_flag"})
        => (~is_unlocked => NoSeedResident)

\* C6 (as claimed): create or import, lock(), unlock(id) Ok, and then
\* derive_address(id, ..) succeeds with the address the wallet's seed gives.
C6_ReunlockRestoresDerivation ==
    (IsDerive /\ phase[last.args.wallet_id] = "reunlocked")
        => last.result = ChainRegistry_derive_address(
                             last.args.chain_id, lastCached[last.args.wallet_id],
                             last.args.account, last.args.index)

\* C7 (as claimed): is_unlocked() is true exactly when a seed is resident.
C7_UnlockedIffSeedResident == WalletManager_is_unlocked(St) <=> ~NoSeedResident

\* C8: a successful create or import leaves is_unlocked() true, the seed cached
\* under the returned id, derive_address(id, c, 0, 0) equal to the address
\* returned for each requested chain c, and every seed cached before still
\* cached.
C8_CreateCachesSeed ==
    [][ (last'.op \in {"create_hd_wallet", "import_hd_wallet"} /\ last'.result.ok) =>
            LET r == last'.result.val
                st == [unlocked |-> is_unlocked', seeds |-> seeds']
            IN /\ WalletManager_is_unlocked(st)
               /\ SessionCache_has_seed(st, r.wallet_id)
               /\ \A i \in 1..Len(last'.args.chains) :
                      WalletManager_derive_address(st, r.wallet_id,
                                                   last'.args.chains[i], 0, 0)
                          = Ok(r.addresses[i])
               /\ \A w \in WalletIds :
                      seeds[w] # NoSeed => seeds'[w] = seeds[w]
      ]_vars

\* C8 witness: a create or import succeeded for three chains while another
\* wallet's seed was cached.
C8_Witness ==
    /\ IsCreate
    /\ last.result.ok
    /\ Len(last.args.chains) = 3
    /\ \E w \in WalletIds : w # last.result.val.wallet_id /\ seeds[w] # NoSeed

\* C9: create and import return one address per requested chain, in request
\* order, each the one derived at account 0, index 0 from the wallet's seed.
C9_OneAddressPerChain ==
    (IsCreate /\ last.result.ok) =>
        LET chains == last.args.chains
            r == last.result.val
        IN /\ Len(r.addresses) = Len(chains)
           /\ \A i \in 1..Len(chains) :
                  /\ r.addresses[i].chain = chains[i]
                  /\ Ok(r.addresses[i])
                       = ChainRegistry_derive_address(chains[i], lastCached[r.wallet_id], 0, 0)

\* C9 witness: two different chains were requested and two addresses returned.
C9_Witness ==
    /\ IsCreate
    /\ last.result.ok
    /\ Len(last.args.chains) >= 2
    /\ last.args.chains[1] # last.args.chains[2]
    /\ Len(last.result.val.addresses) = Len(last.args.chains)

\* What a create or import must fail with, from its arguments alone: the
\* mnemonic step first, then the first unsupported chain in request order.
FirstUnsupported(chains) ==
    chains[CHOOSE i \in 1..Len(chains) :
               /\ chains[i] \notin ChainRegistry_new
               /\ \A j \in 1..(i - 1) : chains[j] \in ChainRegistry_new]

HasUnsupported(chains) == \E i \in 1..Len(chains) : chains[i] \notin ChainRegistry_new

BadPhrase(phrase) ==
    phrase.count \notin {12, 24} \/ phrase.badPos # 0 \/ ~phrase.checksum

MustFail(call) ==
    \/ HasUnsupported(call.args.chains)
    \/ call.op = "create_hd_wallet" /\ call.args.word_count \notin {12, 24}
    \/ call.op = "import_hd_wallet" /\ BadPhrase(call.args.phrase)

ExpectedFailure(call) ==
    IF call.op = "create_hd_wallet" /\ call.args.word_count \notin {12, 24}
    THEN "InvalidMnemonicLength"
    ELSE IF call.op = "import_hd_wallet" /\ BadPhrase(call.args.phrase)
    THEN "InvalidMnemonic"
    ELSE "UnsupportedChain"

\* C10: a create or import with a bad word count, an invalid mnemonic or an
\* unsupported chain returns the first failing step's error (for chains,
\* UnsupportedChain of the first unsupported id), caches no seed, hands out no
\* wallet id and leaves the flag and the cached seeds as they were.
C10_FailFastNoTrace ==
    [][ (last'.op \in {"create_hd_wallet", "import_hd_wallet"} /\ MustFail(last')) =>
            /\ ~last'.result.ok
            /\ last'.result.err[1] = ExpectedFailure(last')
            /\ ExpectedFailure(last') = "UnsupportedChain"
                  => last'.result.err = UnsupportedChain(FirstUnsupported(last'.args.chains))
            /\ (last'.op = "create_hd_wallet" /\ ExpectedFailure(last') = "InvalidMnemonicLength")
                  => last'.result.err = InvalidMnemonicLength(last'.args.word_count)
            /\ UNCHANGED <<is_unlocked, seeds, used>>
      ]_vars

\* C10 witness: a request with two unsupported chains failed while a wallet's
\* seed was cached.
C10_Witness ==
    /\ IsCreate
    /\ ~last.result.ok
    /\ last.args.chains = <<"cosmos", "bitcoin", "dogecoin">>
    /\ last.result.err = UnsupportedChain("cosmos")
    /\ ~NoSeedResident


\* C11: the registry answers UnsupportedChain(id) exactly for the ids outside
\* the seven registered at construction. For validate_address that is every
\* call; for derive_address it is every call that reached the registry (the
\* seed lookup succeeded). The registered set is the same in every reachable
\* state: a registered id never gets UnsupportedChain, whatever ran before.
RegisteredAtConstruction ==
    {"bitcoin", "ethereum", "arbitrum", "optimism", "base", "polygon", "solana"}

ReachedRegistry ==
    \/ last.op = "validate_address"
    \/ /\ IsDerive
       /\ SecureStorage_get_seed(St, last.args.wallet_id).ok

C11_UnsupportedIffUnregistered ==
    ReachedRegistry =>
        /\ last.args.chain_id \notin RegisteredAtConstruction
              => last.result = Err(UnsupportedChain(last.args.chain_id))
        /\ last.args.chain_id \in RegisteredAtConstruction
              => /\ last.result.ok \/ last.result.err[1] # "UnsupportedChain"
                 /\ ChainRegistry_is_supported(last.args.chain_id)

\* An unregistered id is refused by validate_address after wallets were
\* created and the session was locked.
C11_Witness ==
    /\ last.op = "validate_address"
    /\ last.args.chain_id = "cosmos"
    /\ last.result = Err(UnsupportedChain("cosmos"))
    /\ used # {}
    /\ ~is_unlocked


C13_LockNeverWaits ==
    \A u \in Threads :
        /\ pc[u] = "idle" => ENABLED GuardedClearSeeds(u)
        /\ pc[u] = "lock_flag" => ENABLED GuardedClearFlag(u)
        /\ \A t \in Threads \ {u} :
              pc[t] = "derive_compute" => held[t] = {}

\* A lock() ran from start to end while a derivation was computing: the
\* deriver has its seed copy, the map is already empty and the flag cleared.
C13_Witness ==
    \E t, u \in Threads :
        /\ t # u
        /\ pc[t] = "derive_compute"
        /\ pc[u] = "idle"
        /\ ~is_unlocked
        /\ NoSeedResident


\* ------------------------------------------------ Bitcoin adapter claims
IsSend == btcLast.op \in {"create_and_send_transaction", "bitcoin_send_transaction"}
StepNames(steps) == [i \in DOMAIN steps |-> steps[i][1]]
Took(steps, step) == \E i \in DOMAIN steps : steps[i] = step
TookAny(steps, names) == \E i \in DOMAIN steps : steps[i][1] \in names
ServerSteps == {"connect", "transaction_broadcast"}
Funds(wallet) == SumAmounts(Wallet_list_unspent(wallet))

\* C14: no send without a finalized signature. When the signer reports the
\* PSBT as not finalized the call fails with the Bitcoin "not fully signed"
\* error and never reaches the server; and a call that returned a
\* SendTransactionResult, or that reached the server, had a finalized one.
C14_NoUnsignedSend ==
    IsSend =>
        /\ Took(btcLast.steps, Step("sign", "not_finalized"))
              => /\ btcLast.result =
                        Err(Bitcoin("Transaction not fully signed - missing keys"))
                 /\ ~TookAny(btcLast.steps, ServerSteps)
        /\ (btcLast.result.ok \/ TookAny(btcLast.steps, ServerSteps))
              => Took(btcLast.steps, Step("sign", "finalized"))

\* A watch-only wallet with funds was asked to send with broadcast on.
C14_Witness ==
    /\ btcLast.op = "create_and_send_transaction"
    /\ btcLast.args.broadcast
    /\ mem.wallet.kind = "watch"
    /\ Funds(mem.wallet) > 0
    /\ Took(btcLast.steps, Step("sign", "not_finalized"))
    /\ ~btcLast.result.ok

\* C15: the steps of a send run in the order parse recipient, build, sign,
\* (check finalized,) extract, connect, broadcast, each at most once: the
\* steps taken are a prefix of that list. The server is contacted only with
\* broadcast = true and only after a finalized signature; a rejected
\* broadcast is the last step and the call returns an error; with
\* broadcast = false the server is never contacted and a successful call
\* stops after the extraction.
SendOrder == <<"parse", "build", "sign", "extract_tx", "connect", "transaction_broadcast">>

C15_SendStepOrder ==
    IsSend =>
        LET steps == btcLast.steps
            n == Len(steps)
        IN /\ n <= Len(SendOrder)
           /\ StepNames(steps) = SubSeq(SendOrder, 1, n)
           /\ TookAny(steps, ServerSteps)
                 => /\ btcLast.args.broadcast
                    /\ Took(steps, Step("sign", "finalized"))
           /\ Took(steps, Step("transaction_broadcast", "rejected"))
                 => /\ ~btcLast.result.ok
                    /\ steps[n] = Step("transaction_broadcast", "rejected")
           /\ btcLast.result.ok
                 => n = IF btcLast.args.broadcast THEN 6 ELSE 4
           /\ (btcLast.result.ok /\ btcLast.args.broadcast)
                 => steps[n] = Step("transaction_broadcast", "ok")

\* The server rejected the broadcast of a signed transaction.
C15_Witness ==
    /\ btcLast.op = "create_and_send_transaction"
    /\ Len(btcLast.steps) = 6
    /\ btcLast.steps[6] = Step("transaction_broadcast", "rejected")
    /\ btcLast.result = Err(Bitcoin("Transaction broadcast failed"))

\* C16: a recipient that does not parse, or that is for another network than
\* the adapter's, is refused before anything else happens: the call returns
\* the recipient error after the parse step alone (no build, no signature,
\* no server contact), and the wallet object and the wallet files are what
\* they were before the call.
BadRecipient(recipient_address) ==
    ~recipient_address.parses \/ recipient_address.network # "bitcoin"

C16_BadRecipientRejectedFirst ==
    [][(btcLast'.op = "create_and_send_transaction"
          /\ BadRecipient(btcLast'.args.recipient_address))
       => /\ btcLast'.result =
                 (IF btcLast'.args.recipient_address.parses
                  THEN Err(Bitcoin("Address network mismatch"))
                  ELSE Err(Bitcoin("Invalid recipient address")))
          /\ btcLast'.steps = <<Step("parse", "failed")>>
          /\ mem' = mem
          /\ files' = files]_vars

\* A testnet recipient was refused by a mainnet wallet that could have paid.
C16_Witness ==
    /\ btcLast.op = "create_and_send_transaction"
    /\ btcLast.args.recipient_address.network = "testnet"
    /\ btcLast.result = Err(Bitcoin("Address network mismatch"))
    /\ mem.wallet.kind = "full"
    /\ Funds(mem.wallet) >= 3
    /\ ~mem.wallet.change_revealed

\* C17 (as claimed): once bitcoin_sync_wallet has succeeded for a wallet id,
\* what the scan found is in that wallet's stored state: loading the wallet
\* from its file gives the transactions, UTXOs and balance of the synced
\* wallet.
C17_SyncIsPersisted ==
    (btcLast.op = "bitcoin_sync_wallet" /\ btcLast.result.ok) =>
        LET w == btcLast.args.wallet_id
            synced == [files[w].wallet EXCEPT !.txs = btcLast.args.found]
        IN /\ btcLast.args.found \subseteq files[w].wallet.txs
           /\ bitcoin_get_transactions(files, w) = BitcoinAdapter_get_transactions(synced)
           /\ bitcoin_get_utxos(files, w) = BitcoinAdapter_get_utxos(synced)
           /\ bitcoin_get_balance(files, w) = BitcoinAdapter_get_balance(synced)

\* C18: a server failure ends a sync at once and changes nothing. If the
\* connection or the full scan fails, the call returns a Bitcoin error after
\* one connection attempt and at most one scan, applies no update, and the
\* wallet object (the caller's, or the one the command loaded and drops) and
\* the wallet files are what they were before the call.
SyncFailed(call) ==
    /\ call.op \in {"sync_wallet", "bitcoin_sync_wallet"}
    /\ \/ Took(call.steps, Step("connect", "failed"))
       \/ Took(call.steps, Step("full_scan", "failed"))

C18_SyncFailureIsTerminal ==
    [][SyncFailed(btcLast') =>
          /\ ~btcLast'.result.ok
          /\ btcLast'.result.err[1] = "Bitcoin"
          /\ StepNames(btcLast'.steps) \in {<<"connect">>, <<"connect", "full_scan">>}
          /\ mem' = mem
          /\ files' = files
          /\ btcLast'.op = "bitcoin_sync_wallet"
                => btcLast'.args.found = files[btcLast'.args.wallet_id].wallet.txs]_vars

\* The scan failed on a wallet that already knew a transaction while the
\* server had more for it.
C18_Witness ==
    /\ btcLast.op = "sync_wallet"
    /\ btcLast.steps = <<Step("connect", "ok"), Step("full_scan", "failed")>>
    /\ mem.wallet.txs # {}
    /\ Wallet_apply_update(mem.wallet, Chain(tip)) # mem.wallet

\* C19: create_watch_wallet with a single literal address creates no wallet
\* database. Whether it accepts the address or not, the database file of the
\* wallet id is as before; for an id that had none, none exists afterwards,
\* load_wallet fails with the not-found error and bitcoin_wallet_exists
\* gives false. A create_watch_wallet that did create a file was given an
\* extended public key.
LiteralAddress(address_or_xpub) == address_or_xpub.prefix # "xpub"

TxOfId(txid) == CHOOSE tx \in Chain(Len(TxPool)) : tx.txid = txid

NetAmount(owner, tx) == SumOwned(tx.outputs, owner) - SumOwned(tx.inputs, owner)

C20_HistoryAmountIsNet ==
    (btcLast.op = "get_transactions" /\ btcLast.result.ok) =>
        \A i \in DOMAIN btcLast.result.val :
            LET entry == btcLast.result.val[i]
                net == NetAmount(mem.wallet.owner, TxOfId(entry.txid))
            IN /\ entry.amount_sats = net
               /\ entry.direction = IF net > 0 THEN "Received"
                                    ELSE IF net < 0 THEN "Sent"
                                    ELSE "Internal"


\* ------------------------------------------- single-address history claims
IsAddressHistory == btcLast.op = "get_address_transactions" /\ btcLast.result.ok
CountSteps(steps, name) == Cardinality({ i \in DOMAIN steps : steps[i][1] = name })
ConfirmedEntries(entries) ==
    { i \in DOMAIN entries : entries[i].status.type = "confirmed" }

\* C21 (as claimed): in a single-address history whose tip query succeeded,
\* every confirmed item has confirmations = tip_height - tx_height + 1, with
\* tip_height the height the server gave to the call's one tip query.
C21_ConfirmationsFromTip ==
    (IsAddressHistory /\ ~btcLast.args.fault.tip) =>
        /\ CountSteps(btcLast.steps, "block_headers_subscribe") = 1
        /\ \A i \in ConfirmedEntries(btcLast.result.val) :
              LET status == btcLast.result.val[i].status
              IN status.confirmations = btcLast.args.tip - status.block_height + 1

\* C21 (amended): every call asks for the tip exactly once, and every
\* confirmed item has confirmations = tip_height - tx_height + 1 when
\* tip_height is above the item's height and 1 otherwise, where tip_height
\* is the height the server gave, or 0 if the tip query failed.
C21_ConfirmationsClamped ==
    IsAddressHistory =>
        LET tip_height == IF btcLast.args.fault.tip THEN 0 ELSE btcLast.args.tip
        IN /\ CountSteps(btcLast.steps, "block_headers_subscribe") = 1
           /\ \A i \in ConfirmedEntries(btcLast.result.val) :
                 LET status == btcLast.result.val[i].status
                 IN /\ status.block_height > 0
                    /\ status.confirmations =
                          IF tip_height > status.block_height
                          THEN tip_height - status.block_height + 1
                          ELSE 1

\* One history with an item below the tip the call saw and an item mined
\* above it.
C21_Witness ==
    /\ IsAddressHistory
    /\ ~btcLast.args.fault.tip
    /\ \E i, j \in ConfirmedEntries(btcLast.result.val) :
          /\ btcLast.result.val[i].status.block_height < btcLast.args.tip
          /\ btcLast.result.val[i].status.confirmations >= 2
          /\ btcLast.result.val[j].status.block_height > btcLast.args.tip
          /\ btcLast.result.val[j].status.confirmations = 1


\* C22 (as claimed): in get_address_transactions a failed block-header fetch
\* is the only remote failure that does not fail the call: it leaves
\* block_time 0 on the items of that block and every history item is still
\* returned; any other failed request (connection, tip query, history query,
\* transaction fetch) makes the call return a Bitcoin error.
FailedSteps(steps) == { steps[i][1] : i \in { j \in DOMAIN steps : steps[j][2] = "failed" } }

C22_OnlyHeaderFailureSwallowed ==
    btcLast.op = "get_address_transactions" =>
        /\ (FailedSteps(btcLast.steps) \ {"block_header"}) # {}
              => /\ ~btcLast.result.ok
                 /\ btcLast.result.err[1] = "Bitcoin"
        /\ (btcLast.args.address.parses /\ FailedSteps(btcLast.steps) \subseteq {"block_header"})
              => /\ btcLast.result.ok
                 /\ Len(btcLast.result.val) = Cardinality(electrum.seen)
                 /\ \A i \in ConfirmedEntries(btcLast.result.val) :
                       LET status == btcLast.result.val[i].status
                       IN status.block_time =
                             IF status.block_height \in btcLast.args.fault.headers
                             THEN 0 ELSE Electrum_block_time(status.block_height)


\* ------------------------------------------------------ derivation claims
IsRegistryDerive(call) == call.op = "registry_derive_address"

\* C23 (as claimed): for a registered chain and a fixed seed, two calls of
\* derive_address with different (account, index) pairs, anywhere in the
\* 32-bit range, that both return an address never return the same one (and
\* the same pair returns the same result).
C23_DeriveInjective ==
    [][(/\ IsRegistryDerive(last) /\ IsRegistryDerive(last')
        /\ last.args.chain_id = last'.args.chain_id
        /\ last.args.seed = last'.args.seed
        /\ last.result.ok /\ last'.result.ok)
       => /\ (<<last.args.account, last.args.index>>
                 # <<last'.args.account, last'.args.index>>)
                => last'.result.val.address # last.result.val.address
          /\ (<<last.args.account, last.args.index>>
                 = <<last'.args.account, last'.args.index>>)
                => last'.result = last.result]_vars


\* C24: the EVM modules are one derivation. What the registry returns for an
\* EVM chain id is what it returns for every other EVM chain id with the same
\* seed, account and index: the same error, or the same address, derivation
\* path, public key and family, with the chain field naming the chain asked
\* for.
C24_EvmModulesAgree ==
    (IsRegistryDerive(last) /\ last.args.chain_id \in EvmChainIds) =>
        \A other \in EvmChainIds :
            LET twin == ChainRegistry_derive_address(
                            other, last.args.seed, last.args.account, last.args.index)
            IN IF last.result.ok
               THEN /\ twin.ok
                    /\ twin.val.address = last.result.val.address
                    /\ twin.val.derivation_path = last.result.val.derivation_path
                    /\ twin.val.public_key = last.result.val.public_key
                    /\ twin.val.chain_family = last.result.val.chain_family
                    /\ twin.val.chain = other
                    /\ last.result.val.chain = last.args.chain_id
               ELSE twin = last.result

\* Polygon derived an address at account 1, index 1.
C24_Witness ==
    /\ IsRegistryDerive(last)
    /\ last.args.chain_id = "polygon"
    /\ last.args.account = 1 /\ last.args.index = 1
    /\ last.result.ok
    /\ last.result.val.address[1] = "eip55"


\* --------------------------------------------------- command-level claims
SeedReaders ==
    {"derive_address", "bitcoin_init_from_cached_seed",
     "ethereum_get_address", "ethereum_sign_message"}

\* The call failed because it did not get the seed.
SeedUnreadable(call) ==
    /\ ~call.result.ok
    /\ \/ call.result.err \in {WalletLocked, WalletNotFound(call.args.wallet_id)}
       \/ call.result.err = Bitcoin("Failed to get cached seed")
       \/ /\ call.result.err[1] = "String"
          /\ call.result.err[2] = "Failed to get seed"

\* C25 (as claimed): every command that reads a seed reads the store that
\* create_hd_wallet / import_hd_wallet write and lock_wallet clears: while
\* that store is unlocked and holds the wallet's seed the command gets the
\* seed, and when it is locked or does not hold it the command does not.
C25_OneSecretStore ==
    last.op \in SeedReaders =>
        LET w == last.args.wallet_id
        IN IF is_unlocked /\ seeds[w] # NoSeed
           THEN ~SeedUnreadable(last)
           ELSE SeedUnreadable(last)


\* ---------------------------------------------------------------- C26
\* The phrases that differ from p only in the secret: the same number of
\* words, the same position of the first unknown word and the same checksum
\* outcome, with other words.
PhraseSecretVariants(p) ==
    { [p EXCEPT !.badWord = w, !.entropy = e] :
        w \in (IF p.badPos = 0 THEN {""} ELSE {"zzz", "yyy"}), e \in Entropies }

\* The stores that differ from the current one only in the bytes of the seeds
\* they hold.
StoreSecretVariants ==
    { [St EXCEPT !.seeds = sv] :
        sv \in { f \in [WalletIds -> Seeds \cup {NoSeed}] :
                   \A w \in WalletIds : (f[w] = NoSeed) <=> (seeds[w] = NoSeed) } }

\* C26: an error returned by import_hd_wallet, derive_address or get_seed is
\* the same value for every input that differs only in the secret: the words
\* of the submitted phrase, or the bytes of the cached seeds.
C26_ErrorsCarryNoSecret ==
    /\ (last.op = "import_hd_wallet" /\ ~last.result.ok) =>
          \A q \in PhraseSecretVariants(last.args.phrase), id \in WalletIds :
              WalletManager_import_hd_wallet(St, q, last.args.chains, id).result = last.result
    /\ (last.op = "derive_address" /\ ~last.result.ok) =>
          \A st \in StoreSecretVariants :
              WalletManager_derive_address(st, last.args.wallet_id, last.args.chain_id,
                                           last.args.account, last.args.index) = last.result
    /\ (last.op = "get_seed" /\ ~last.result.ok) =>
          \A st \in StoreSecretVariants :
              SecureStorage_get_seed(st, last.args.wallet_id) = last.result


\* ---------------------------------------------------------------- C27
\* C27: once lock() has returned, with no call in flight, no un-zeroized copy
\* of a seed that was cached remains: not in the cache, not among the copies
\* get_seed handed out, not among the copies made when create or import
\* cached the seed.
C27_NoSeedOutlivesLock ==
    last.op = "lock" => (NoSeedResident /\ residue = {})


\* ---------------------------------------------------------------- C28
\* C28: successive bitcoin_get_new_address calls for one wallet id return new
\* addresses: after a call that returned an address, the call made next for
\* the same id returns an address of a strictly higher external index. (The
\* command changes nothing, so the next call runs in this state.)
C28_NewAddressEachCall ==
    (btcLast.op = "bitcoin_get_new_address" /\ btcLast.result.ok) =>
        LET next == bitcoin_get_new_address(files, btcLast.args.wallet_id)
        IN /\ next.ok
           /\ next.val.index > btcLast.result.val.index
           /\ next.val # btcLast.result.val


\* ---------------------------------------------------------------- C29
IsHistory ==
    /\ btcLast.op \in {"get_transactions", "bitcoin_get_transactions", "get_address_transactions"}
    /\ btcLast.result.ok

\* C29: in the list either history operation returns, every transaction whose
\* status is Confirmed carries confirmations >= 1, and confirmations() is 0
\* only for a transaction that is not confirmed.
C29_ConfirmedHasConfirmations ==
    IsHistory =>
        \A i \in DOMAIN btcLast.result.val :
            LET t == btcLast.result.val[i]
            IN /\ BitcoinTransaction_is_confirmed(t) => t.status.confirmations >= 1
               /\ BitcoinTransaction_confirmations(t) = 0 => ~BitcoinTransaction_is_confirmed(t)


\* ---------------------------------------------------------------- C30
\* C30: the list either history operation returns is most recent first, with
\* unconfirmed transactions placed the same way: the confirmed items are in
\* non-increasing timestamp order, and every unconfirmed item (no timestamp)
\* comes before all confirmed ones.
C30_UnconfirmedFirstThenNewest ==
    IsHistory =>
        \A i, j \in DOMAIN btcLast.result.val :
            LET a == btcLast.result.val[i]
                b == btcLast.result.val[j]
            IN i < j =>
                 /\ (a.timestamp.some /\ b.timestamp.some) => a.timestamp.val >= b.timestamp.val
                 /\ ~b.timestamp.some => ~a.timestamp.some

====
